---- MODULE Spec2Model ----
(***************************************************************************)
(* Verification model of the sound-design engine (src/src/sound).          *)
(*                                                                         *)
(* Numbers that the program keeps as floats in [0,1] (confidence,          *)
(* intensity, source priority) are kept in tenths: 0.9 is 9.  Volumes are  *)
(* kept in thousandths: 0.15 is 150.  max_per_second is kept in tenths.    *)
(***************************************************************************)
EXTENDS Integers, Sequences, FiniteSets, TLC

VARIABLES
    \* ---- aggregator (aggregator.py) ----
    code_moments,       \* list passed as code_moments
    narration_moments,  \* list passed as narration_moments
    llm_moments,        \* list passed as llm_moments
    cfg,                \* the keyword arguments of the aggregate_moments call
    all_moments,        \* local all_moments after the sort
    merged,             \* local merged after _merge_nearby_moments
    buffered,           \* local merged after the edge buffer step
    filtered,           \* the returned list
    apc,                \* "build" while the caller builds the lists, "done" after the call
    \* ---- constructors (models.py) ----
    made_moment_args,   \* arguments of the latest SoundMoment(...) call, None before
    made_moment,        \* the SoundMoment it built
    made_cue_args,      \* arguments of the latest SFXCue construction, None before
    made_cue,           \* the SFXCue it built
    \* ---- cue generator (cue_generator.py) ----
    cg_moments,         \* the moments handed to generate_cues
    cg_scene_id,        \* the scene_id handed to generate_cues
    runs,               \* per process: its string hash key and what generate_cues did
    \* ---- storyboard updater (storyboard_updater.py) ----
    sb_file,            \* content of the storyboard file, None when it does not exist
    sb_bak,             \* content of the .json.bak file, None when it does not exist
    upd,                \* per caller: its StoryboardUpdater and its position in save()
    last_update,        \* arguments and effect of the latest update_scene_cues call
    sb_ops,             \* number of update_scene_cues and save calls made so far
    \* ---- narration analyzer (narration_sync.py) ----
    narration,          \* the narration text, as its list of words
    word_timestamps,    \* the WordTimestamp list handed to analyze
    narr_clock,         \* time at which the next spoken word starts, in tenths of a second
    narr_matches,       \* per pattern match of the analysis, in order: what the lookup returned
    narr_raw,           \* local moments before _deduplicate_nearby
    narr_moments,       \* the list analyze returned
    npc,                \* "build" while the narration is put together, "done" after analyze
    narr_fps,           \* the fps the narration analyzer was constructed with
    \* ---- semantic analyzer (llm_analyzer.py) ----
    llm_items,          \* the items of the JSON array the client will answer with
    llm_clock,          \* timestamp_seconds of the latest item, in tenths of a second
    llm_call,           \* the latest analyze call: client, fps, what the client did
    llm_filtered,       \* local filtered of _apply_constraints after the gap loop
    llm_result,         \* outcome of analyze: the exception that left it, the list returned
    lpc,                \* "build" while the answer is put together, "done" after analyze
    \* ---- scene analyzer and orchestrator (scene_analyzer.py, sfx_orchestrator.py) ----
    scene_files,        \* per storyboard scene: what the search for its timeline file finds
    scene_call,         \* the latest direct call of SceneAnalyzer.analyze_scene and its outcome
    orch_runs,          \* the generate_sfx_cues calls made so far, each with its outcome
    \* ---- glow detector of the scene analyzer (scene_analyzer.py) ----
    tsx_code,           \* the text of a scene file, as its list of source lines
    glow_result         \* None before the detector ran, then the moments it added

aggVars == <<code_moments, narration_moments, llm_moments, cfg,
             all_moments, merged, buffered, filtered, apc>>
modelVars == <<made_moment_args, made_moment, made_cue_args, made_cue>>
cueVars == <<cg_moments, cg_scene_id, runs>>
sbVars == <<sb_file, sb_bak, upd, last_update, sb_ops>>
narrVars == <<narration, word_timestamps, narr_clock, narr_matches, narr_raw, narr_moments, npc,
              narr_fps>>
llmVars == <<llm_items, llm_clock, llm_call, llm_filtered, llm_result, lpc>>
orchVars == <<scene_files, scene_call, orch_runs>>
glowVars == <<tsx_code, glow_result>>

vars == <<aggVars, modelVars, cueVars, sbVars, narrVars, llmVars, orchVars, glowVars>>

\* what an operation of one component leaves alone: the state of the other components
AggOnly == UNCHANGED <<modelVars, cueVars, sbVars, narrVars, llmVars, orchVars, glowVars>>
ModelsOnly == UNCHANGED <<aggVars, cueVars, sbVars, narrVars, llmVars, orchVars, glowVars>>
CueOnly == UNCHANGED <<aggVars, modelVars, sbVars, narrVars, llmVars, orchVars, glowVars>>
StoryboardOnly == UNCHANGED <<aggVars, modelVars, cueVars, narrVars, llmVars, orchVars, glowVars>>
NarrationOnly == UNCHANGED <<aggVars, modelVars, cueVars, sbVars, llmVars, orchVars, glowVars>>
LlmOnly == UNCHANGED <<aggVars, modelVars, cueVars, sbVars, narrVars, orchVars, glowVars>>
\* the orchestrator works on the storyboard file and its backup
OrchOnly == UNCHANGED <<aggVars, modelVars, cueVars, narrVars, llmVars, glowVars,
                        upd, last_update, sb_ops>>
GlowOnly == UNCHANGED <<aggVars, modelVars, cueVars, sbVars, narrVars, llmVars, orchVars>>

----------------------------------------------------------------------------
(* Bounds of the model *)

MaxMoments == 3
MaxTie == 2
MaxFrame == 2
MaxCueMoments == 2
MaxUpdates == 2
MaxSaves == 2
MaxWords == 3
MaxItems == 9
MaxOddItems == 2
MaxRuns == 2
MaxLines == 4

\* Optional[int]: None is the empty tuple, a value n is <<n>>
None == <<>>
Some(n) == <<n>>

Min2(a, b) == IF a < b THEN a ELSE b
Max2(a, b) == IF a > b THEN a ELSE b

----------------------------------------------------------------------------
(* models.py: SoundMoment *)

\* SoundMoment without the clamp of frame
SoundMomentFrameUnclamped(ref, type, frame, confidence, intensity, source, duration_frames) ==
    [ref             |-> ref,
     type            |-> type,
     frame           |-> frame,
     confidence      |-> Max2(0, Min2(10, confidence)),
     intensity       |-> Max2(0, Min2(10, intensity)),
     source          |-> source,
     duration_frames |-> duration_frames]

\* SoundMoment.__post_init__: confidence and intensity clamped to [0,1],
\* frame clamped to >= 0.  ref stands for the identity of the object; the
\* free-text context is left out.
SoundMoment(ref, type, frame, confidence, intensity, source, duration_frames) ==
    [ref             |-> ref,
     type            |-> type,
     frame           |-> Max2(0, frame),
     confidence      |-> Max2(0, Min2(10, confidence)),
     intensity       |-> Max2(0, Min2(10, intensity)),
     source          |-> source,
     duration_frames |-> duration_frames]

\* SFXCue.__post_init__: volume clamped to [0,1] (0..1000 thousandths), frame to >= 0
SFXCue(sound, frame, volume, duration_frames) ==
    [sound           |-> sound,
     frame           |-> Max2(0, frame),
     volume          |-> Max2(0, Min2(1000, volume)),
     duration_frames |-> duration_frames]

\* SFXCue.to_dict: duration_frames only when it is not None (None stands for
\* the missing key)
ToDict(c) ==
    [sound |-> c.sound, frame |-> c.frame, volume |-> Some(c.volume),
     duration_frames |-> c.duration_frames]

\* SFXCue.from_dict: volume defaults to 0.1, duration_frames to None
FromDict(data) ==
    SFXCue(data.sound, data.frame,
           IF data.volume = None THEN 100 ELSE data.volume[1],
           data.duration_frames)

\* VOLUME_BY_TYPE.get(moment.type, 0.08), in thousandths
VolumeByType(type) ==
    CASE type = "element_appear"    -> 80
      [] type = "element_disappear" -> 60
      [] type = "text_reveal"       -> 50
      [] type = "reveal"            -> 120
      [] type = "counter"           -> 100
      [] type = "transition"        -> 80
      [] type = "warning"           -> 100
      [] type = "success"           -> 100
      [] type = "lock"              -> 80
      [] type = "data_flow"         -> 80
      [] type = "connection"        -> 80
      [] type = "highlight"         -> 70
      [] type = "chart_grow"        -> 80
      [] type = "pulse"             -> 70
      [] OTHER                      -> 80

\* MOMENT_TO_SOUND.get(moment_type, "ui_pop")
GetSoundForMoment(type) ==
    CASE type \in {"element_appear", "element_disappear", "highlight", "pulse"} -> "ui_pop"
      [] type = "text_reveal" -> "text_tick"
      [] type = "reveal"      -> "reveal_hit"
      [] type \in {"counter", "chart_grow"} -> "counter_sweep"
      [] type = "transition"  -> "transition_whoosh"
      [] type = "warning"     -> "warning_tone"
      [] type = "success"     -> "success_tone"
      [] type \in {"lock", "connection"} -> "lock_click"
      [] type = "data_flow"   -> "data_flow"
      [] OTHER                -> "ui_pop"

\* calculate_volume, in units of 0.00001: base * (0.7 + 0.3 * intensity), capped at 0.15
CalculateVolume(m) == Min2(VolumeByType(m.type) * (70 + 3 * m.intensity), 15000)

\* round(volume, 3), in thousandths: the nearest thousandth; at an exact decimal
\* tie the binary value of the float decides, so both neighbours are possible
Round3(v) ==
    IF v % 100 = 50 THEN {v \div 100, (v \div 100) + 1}
    ELSE IF v % 100 < 50 THEN {v \div 100}
    ELSE {(v \div 100) + 1}

----------------------------------------------------------------------------
(* aggregator.py *)

\* list.sort(key=lambda m: m.frame): stable, ascending by frame
RECURSIVE InsertByFrame(_, _)
InsertByFrame(s, m) ==
    IF s = <<>> THEN <<m>>
    ELSE IF s[Len(s)].frame <= m.frame THEN Append(s, m)
    ELSE Append(InsertByFrame(SubSeq(s, 1, Len(s) - 1), m), s[Len(s)])

RECURSIVE SortByFrame(_)
SortByFrame(s) ==
    IF s = <<>> THEN <<>>
    ELSE InsertByFrame(SortByFrame(SubSeq(s, 1, Len(s) - 1)), s[Len(s)])

\* sorted(moments, key=lambda m: m.confidence, reverse=True): stable, descending
RECURSIVE InsertByConfidence(_, _)
InsertByConfidence(s, m) ==
    IF s = <<>> THEN <<m>>
    ELSE IF s[Len(s)].confidence >= m.confidence THEN Append(s, m)
    ELSE Append(InsertByConfidence(SubSeq(s, 1, Len(s) - 1), m), s[Len(s)])

\* the moments left in the order they came in
SortByConfidenceSkipped(s) == s

RECURSIVE SortByConfidence(_)
SortByConfidence(s) ==
    IF s = <<>> THEN <<>>
    ELSE InsertByConfidence(SortByConfidence(SubSeq(s, 1, Len(s) - 1)), s[Len(s)])

\* source_priority.get(m.source, 0.5)
SourcePriority(source) ==
    CASE source = "code"      -> 9
      [] source = "narration" -> 8
      [] source = "llm"       -> 7
      [] OTHER                -> 5

\* Score without the source priority
ScoreNoPriority(m) == <<m.confidence, 0, m.intensity>>

\* score(m): the tuple (confidence, source priority, intensity)
Score(m) == <<m.confidence, SourcePriority(m.source), m.intensity>>

\* tuple comparison a < b
TupleLess(a, b) ==
    \/ a[1] < b[1]
    \/ a[1] = b[1] /\ a[2] < b[2]
    \/ a[1] = b[1] /\ a[2] = b[2] /\ a[3] < b[3]

\* SelectBestMoment that moves the kept moment to the frame of the group's first moment
SelectBestMomentSnapped(group) ==
    LET best == CHOOSE i \in 1..Len(group) :
                    /\ \A j \in 1..Len(group) : ~TupleLess(Score(group[i]), Score(group[j]))
                    /\ \A j \in 1..(i - 1) : TupleLess(Score(group[j]), Score(group[i]))
    IN [group[best] EXCEPT !.frame = group[1].frame]

\* _select_best_moment: max(moments, key=score) returns the first maximal element
SelectBestMoment(group) ==
    IF Len(group) = 1 THEN group[1]
    ELSE LET best == CHOOSE i \in 1..Len(group) :
                        /\ \A j \in 1..Len(group) : ~TupleLess(Score(group[i]), Score(group[j]))
                        /\ \A j \in 1..(i - 1) : TupleLess(Score(group[j]), Score(group[i]))
         IN group[best]

\* the merge loop with the window measured from the latest member of the group
RECURSIVE MergeLoopChained(_, _, _, _, _)
MergeLoopChained(moments, i, current_group, acc, window_frames) ==
    IF i > Len(moments)
    THEN Append(acc, SelectBestMoment(current_group))
    ELSE IF moments[i].frame - current_group[Len(current_group)].frame <= window_frames
         THEN MergeLoopChained(moments, i + 1, Append(current_group, moments[i]), acc,
                               window_frames)
         ELSE MergeLoopChained(moments, i + 1, <<moments[i]>>,
                               Append(acc, SelectBestMoment(current_group)), window_frames)

\* the loop of _merge_nearby_moments from position i on, with the locals
\* current_group and merged (acc)
RECURSIVE MergeLoop(_, _, _, _, _)
MergeLoop(moments, i, current_group, acc, window_frames) ==
    IF i > Len(moments)
    THEN Append(acc, SelectBestMoment(current_group))
    ELSE IF moments[i].frame - current_group[1].frame <= window_frames
         THEN MergeLoop(moments, i + 1, Append(current_group, moments[i]), acc, window_frames)
         ELSE MergeLoop(moments, i + 1, <<moments[i]>>,
                        Append(acc, SelectBestMoment(current_group)), window_frames)

\* _merge_nearby_moments
MergeNearbyMoments(moments, window_frames) ==
    IF moments = <<>> THEN <<>>
    ELSE MergeLoop(moments, 2, <<moments[1]>>, <<>>, window_frames)

\* ApplyEdgeBuffer with the lower bound exclusive
ApplyEdgeBufferExclusive(moments, buffer_frames, scene_duration) ==
    LET Keep(m) == buffer_frames < m.frame /\ m.frame <= scene_duration - buffer_frames
    IN SelectSeq(moments, Keep)

\* _apply_edge_buffer
ApplyEdgeBuffer(moments, buffer_frames, scene_duration) ==
    LET Keep(m) == buffer_frames <= m.frame /\ m.frame <= scene_duration - buffer_frames
    IN SelectSeq(moments, Keep)

\* Admits without the minimum gap check
AdmitsNoGap(selected, moment, max_per_second, min_gap_frames, fps) ==
    LET window_start == moment.frame - (fps \div 2)
        window_end == moment.frame + (fps \div 2)
        count_in_window == Cardinality({k \in 1..Len(selected) :
                                           /\ window_start <= selected[k].frame
                                           /\ selected[k].frame <= window_end})
    IN ~(count_in_window * 10 >= max_per_second)

\* the body of the loop of _enforce_density for one moment: TRUE iff it is admitted
Admits(selected, moment, max_per_second, min_gap_frames, fps) ==
    LET selected_frames == {selected[k].frame : k \in 1..Len(selected)}
        window_start == moment.frame - (fps \div 2)
        window_end == moment.frame + (fps \div 2)
        count_in_window == Cardinality({f \in selected_frames :
                                           window_start <= f /\ f <= window_end})
        too_close == \E f \in selected_frames :
                        (IF moment.frame >= f THEN moment.frame - f ELSE f - moment.frame)
                            < min_gap_frames
    IN /\ ~too_close
       /\ ~(count_in_window * 10 >= max_per_second)

\* the loop of _enforce_density over by_confidence from position i on
RECURSIVE DensityLoop(_, _, _, _, _, _)
DensityLoop(by_confidence, i, selected, max_per_second, min_gap_frames, fps) ==
    IF i > Len(by_confidence) THEN selected
    ELSE DensityLoop(by_confidence, i + 1,
                     IF Admits(selected, by_confidence[i], max_per_second, min_gap_frames, fps)
                     THEN Append(selected, by_confidence[i])
                     ELSE selected,
                     max_per_second, min_gap_frames, fps)

\* _enforce_density
EnforceDensity(moments, max_per_second, min_gap_frames, fps) ==
    IF moments = <<>> THEN <<>>
    ELSE SortByFrame(DensityLoop(SortByConfidence(moments), 1, <<>>,
                                 max_per_second, min_gap_frames, fps))

\* Step 2 of aggregate_moments: "if scene_duration_frames:" is false for None and for 0
EdgeStep(ms, c) ==
    IF c.scene_duration_frames # None /\ c.scene_duration_frames # Some(0)
    THEN ApplyEdgeBuffer(ms, c.edge_buffer_frames, c.scene_duration_frames[1])
    ELSE ms

----------------------------------------------------------------------------
(* Inputs of the aggregator *)

FrameValues == 0..MaxFrame
ConfidenceValues == {5, 9}
IntensityValues == {7}
TieIntensityValues == {3, 7}

\* the defaults of the keyword arguments of aggregate_moments
DefaultConfig ==
    [max_per_second |-> 30, min_gap_frames |-> 10, merge_window_frames |-> 10,
     edge_buffer_frames |-> 15, fps |-> 30, scene_duration_frames |-> None]

Config(mps, gap, mw, eb, fps, dur) ==
    [max_per_second |-> mps, min_gap_frames |-> gap, merge_window_frames |-> mw,
     edge_buffer_frames |-> eb, fps |-> fps, scene_duration_frames |-> dur]

\* calls without a scene duration: density and gap parameters vary
DensityConfigs ==
    {Config(mps, gap, mw, 1, 3, None) : mps \in {10, 20}, gap \in {1, 2}, mw \in {0, 1}}
    \cup {Config(mps, 1, 0, 1, 4, None) : mps \in {10, 20}}

\* calls with a scene duration (0 included): the edge buffer applies
EdgeConfigs ==
    {Config(20, 1, mw, 1, 4, Some(dur)) : mw \in {0, 1}, dur \in {0, MaxFrame}}

Configs == DensityConfigs \cup EdgeConfigs

\* calls of the tie-break scenarios: only the merge window varies
TieConfigs ==
    {Config(30, 1, mw, 1, 4, None) : mw \in {0, 1, MaxFrame}}

TypeOfSource(source) ==
    CASE source = "code" -> "element_appear"
      [] source = "narration" -> "reveal"
      [] OTHER -> "highlight"

TotalMoments == Len(code_moments) + Len(narration_moments) + Len(llm_moments)

\* the frames a caller may append to list l: the analyzers hand over frame-sorted lists
\* (scene_analyzer.py:171, narration_sync.py:241, llm_analyzer.py:244)
NextFrames(l) == {f \in FrameValues : l # <<>> => l[Len(l)].frame <= f}

InitAgg ==
    /\ code_moments = <<>>
    /\ narration_moments = <<>>
    /\ llm_moments = <<>>
    /\ cfg = DefaultConfig
    /\ all_moments = <<>>
    /\ merged = <<>>
    /\ buffered = <<>>
    /\ filtered = <<>>
    /\ apc = "build"

\* the caller constructs a moment and appends it to the code list
NewCodeMoment(limit, intensities) ==
    /\ apc = "build"
    /\ TotalMoments < limit
    /\ narration_moments = <<>> /\ llm_moments = <<>>
    /\ \E f \in NextFrames(code_moments), c \in ConfidenceValues, i \in intensities :
          code_moments' = Append(code_moments,
              SoundMoment(<<"code", Len(code_moments) + 1>>, TypeOfSource("code"), f, c, i, "code", None))
    /\ UNCHANGED <<narration_moments, llm_moments, cfg, all_moments, merged, buffered,
                   filtered, apc>>
    /\ AggOnly

\* the caller constructs a moment and appends it to the narration list
NewNarrationMoment(limit, intensities) ==
    /\ apc = "build"
    /\ TotalMoments < limit
    /\ llm_moments = <<>>
    /\ \E f \in NextFrames(narration_moments), c \in ConfidenceValues, i \in intensities :
          narration_moments' = Append(narration_moments,
              SoundMoment(<<"narration", Len(narration_moments) + 1>>,
                          TypeOfSource("narration"), f, c, i, "narration", None))
    /\ UNCHANGED <<code_moments, llm_moments, cfg, all_moments, merged, buffered,
                   filtered, apc>>
    /\ AggOnly

\* the caller constructs a moment and appends it to the llm list
NewLlmMoment(limit, intensities) ==
    /\ apc = "build"
    /\ TotalMoments < limit
    /\ \E f \in NextFrames(llm_moments), c \in ConfidenceValues, i \in intensities :
          llm_moments' = Append(llm_moments,
              SoundMoment(<<"llm", Len(llm_moments) + 1>>, TypeOfSource("llm"), f, c, i, "llm", None))
    /\ UNCHANGED <<code_moments, narration_moments, cfg, all_moments, merged, buffered,
                   filtered, apc>>
    /\ AggOnly

\* aggregate_moments(code_moments, narration_moments, llm_moments, **c)
AggregateMoments(configs) ==
    /\ apc = "build"
    /\ \E c \in configs :
          LET combined == code_moments \o narration_moments \o llm_moments
              sorted == SortByFrame(combined)
              m == MergeNearbyMoments(sorted, c.merge_window_frames)
              b == EdgeStep(m, c)
          IN /\ cfg' = c
             /\ all_moments' = sorted
             /\ merged' = IF combined = <<>> THEN <<>> ELSE m
             /\ buffered' = IF combined = <<>> THEN <<>> ELSE b
             /\ filtered' = IF combined = <<>> THEN <<>>
                            ELSE EnforceDensity(b, c.max_per_second, c.min_gap_frames, c.fps)
    /\ apc' = "done"
    /\ UNCHANGED <<code_moments, narration_moments, llm_moments>>
    /\ AggOnly

NextAgg ==
    \/ NewCodeMoment(MaxMoments, IntensityValues)
    \/ NewNarrationMoment(MaxMoments, IntensityValues)
    \/ NewLlmMoment(MaxMoments, IntensityValues)
    \/ AggregateMoments(Configs)

NextTie ==
    \/ NewCodeMoment(MaxTie, TieIntensityValues)
    \/ NewNarrationMoment(MaxTie, TieIntensityValues)
    \/ NewLlmMoment(MaxTie, TieIntensityValues)
    \/ AggregateMoments(TieConfigs)

----------------------------------------------------------------------------
(* models.py: construction of single objects *)

RawTypes == {"reveal", "test"}
RawFrames == {-10, 0, 45}
RawConfidences == {-5, 9, 15}
RawIntensities == {-5, 7, 12}
RawVolumes == {-100, 80, 150, 151, 500, 1500}
RawDurations == {None, Some(30)}

InitModels ==
    /\ made_moment_args = None
    /\ made_moment = None
    /\ made_cue_args = None
    /\ made_cue = None

\* SoundMoment(type, frame, confidence, context, intensity)
NewSoundMoment ==
    /\ \E t \in RawTypes, f \in RawFrames, c \in RawConfidences, i \in RawIntensities :
          /\ made_moment_args' =
                Some([type |-> t, frame |-> f, confidence |-> c, intensity |-> i])
          /\ made_moment' = Some(SoundMoment(<<"made", 1>>, t, f, c, i, "code", None))
    /\ UNCHANGED <<made_cue_args, made_cue>>
    /\ ModelsOnly

\* SFXCue(sound, frame, volume, duration_frames)
NewSFXCue ==
    /\ \E f \in RawFrames, v \in RawVolumes, d \in RawDurations :
          /\ made_cue_args' = Some([via |-> "init", frame |-> f, volume |-> Some(v)])
          /\ made_cue' = Some(SFXCue("ui_pop", f, v, d))
    /\ UNCHANGED <<made_moment_args, made_moment>>
    /\ ModelsOnly

\* SFXCue.from_dict(data), data with or without the volume key
NewSFXCueFromDict ==
    /\ \E f \in RawFrames, v \in {None} \cup {Some(x) : x \in RawVolumes} :
          /\ made_cue_args' = Some([via |-> "from_dict", frame |-> f, volume |-> v])
          /\ made_cue' = Some(FromDict([sound |-> "reveal_hit", frame |-> f, volume |-> v,
                                        duration_frames |-> None]))
    /\ UNCHANGED <<made_moment_args, made_moment>>
    /\ ModelsOnly

\* the cue that the body of the loop of _generate_library_cues builds for moment m
LibraryCues(m) ==
    {SFXCue(GetSoundForMoment(m.type), m.frame, v, m.duration_frames) :
        v \in Round3(CalculateVolume(m))}

\* the cue generator turns the latest constructed moment into a cue
NewLibraryCue ==
    /\ made_moment # None
    /\ \E c \in LibraryCues(made_moment[1]) :
          /\ made_cue_args' =
                Some([via |-> "library", frame |-> made_moment[1].frame, volume |-> None])
          /\ made_cue' = Some(c)
    /\ UNCHANGED <<made_moment_args, made_moment>>
    /\ ModelsOnly

NextModels == NewSoundMoment \/ NewSFXCue \/ NewSFXCueFromDict \/ NewLibraryCue

----------------------------------------------------------------------------
(* cue_generator.py *)

Procs == {1, 2}
\* the key of the process's string hash: picked at interpreter start
HashKeys == {"key_a", "key_b"}
SceneIds == {"intro", "hook"}
CueTypes == {"reveal", "warning", "success", "sparkle"}
CueFrames == {0, 30}
CueIntensities == {3, 10}

\* f"{scene_id}_{moment.type}_{i}_{moment.frame}"
SeedString(scene_id, type, i, frame) == <<scene_id, "_", type, "_", i, "_", frame>>

\* hash(s) of a str in a process whose hash key is key: SipHash of the string under
\* the key, kept as an uninterpreted term
StrHash(key, s) == <<"hash", key, s>>

\* h & 0xFFFFFFFF
Low32(h) == <<"low32", h>>

\* MOMENT_TO_EVENT.get(moment.type, SoundEvent.ELEMENT_APPEAR)
MomentToEvent(type) ==
    CASE type = "element_appear"    -> "ELEMENT_APPEAR"
      [] type = "element_disappear" -> "ELEMENT_DISAPPEAR"
      [] type = "text_reveal"       -> "TEXT_REVEAL"
      [] type = "reveal"            -> "REVEAL"
      [] type = "counter"           -> "COUNTER"
      [] type = "transition"        -> "TRANSITION"
      [] type = "warning"           -> "WARNING"
      [] type = "success"           -> "SUCCESS"
      [] type = "lock"              -> "LOCK"
      [] type = "data_flow"         -> "DATA_FLOW"
      [] type = "connection"        -> "CONNECTION"
      [] type = "highlight"         -> "PING"
      [] type = "chart_grow"        -> "COUNTER"
      [] type = "pulse"             -> "PULSE"
      [] OTHER                      -> "ELEMENT_APPEAR"

\* library cues collected in the opposite order
RECURSIVE GenerateLibraryCuesReversed(_)
GenerateLibraryCuesReversed(moments) ==
    IF moments = <<>> THEN {<<>>}
    ELSE {<<c>> \o front :
            front \in GenerateLibraryCuesReversed(SubSeq(moments, 1, Len(moments) - 1)),
            c \in LibraryCues(moments[Len(moments)])}

\* _generate_library_cues: the lists of cues it can return (one per rounding outcome)
RECURSIVE GenerateLibraryCues(_)
GenerateLibraryCues(moments) ==
    IF moments = <<>> THEN {<<>>}
    ELSE {Append(front, c) :
            front \in GenerateLibraryCues(SubSeq(moments, 1, Len(moments) - 1)),
            c \in LibraryCues(moments[Len(moments)])}

\* the variation_seed of the cue at position i (1-based here, i - 1 in the program)
VariationSeed(key, scene_id, moments, i) ==
    Low32(StrHash(key, SeedString(scene_id, moments[i].type, i - 1, moments[i].frame)))

\* _calculate_pitch(moment, index, total), in hundredths of a semitone; index / (total - 1)
\* is kept as a fraction, which is exact in hundredths for the list lengths used
CalculatePitch(moment, index, total) ==
    IF total <= 1 THEN 0
    ELSE LET travelled == (600 * index) \div (total - 1)
             arc == IF 100 * index < 67 * (total - 1)
                    THEN (0 - 200) + travelled
                    ELSE 200 - (travelled - 402)
             pitch == CASE moment.type = "reveal"  -> arc + 200
                        [] moment.type = "warning" -> arc - 300
                        [] moment.type = "success" -> arc + 100
                        [] OTHER                   -> arc
         IN Max2(0 - 1200, Min2(1200, pitch))

\* the arguments of the calls self.generator.generate(...) of _generate_custom_cues
GenerateCalls(key, scene_id, moments) ==
    [i \in 1..Len(moments) |->
        [event          |-> MomentToEvent(moments[i].type),
         intensity      |-> moments[i].intensity,
         pitch_offset   |-> CalculatePitch(moments[i], i - 1, Len(moments)),
         variation_seed |-> VariationSeed(key, scene_id, moments, i)]]

\* _generate_custom_cues: the lists of cues it can return; the sound is named
\* f"{scene_id}_{moment.type}_{i}"
RECURSIVE GenerateCustomCues(_, _)
GenerateCustomCues(moments, scene_id) ==
    IF moments = <<>> THEN {<<>>}
    ELSE LET n == Len(moments)
             m == moments[n]
         IN {Append(front, SFXCue(<<scene_id, "_", m.type, "_", n - 1>>, m.frame, v,
                                  m.duration_frames)) :
                front \in GenerateCustomCues(SubSeq(moments, 1, n - 1), scene_id),
                v \in Round3(CalculateVolume(m))}

IdleRun == [pc |-> "off", key |-> "", mode |-> "", cues |-> <<>>, calls |-> <<>>]

InitCue ==
    /\ cg_moments = <<>>
    /\ cg_scene_id = "intro"
    /\ runs = [r \in Procs |-> IdleRun]

\* the pipeline is pointed at another scene before any run
NewScene ==
    /\ \A r \in Procs : runs[r].pc = "off"
    /\ cg_moments = <<>>
    /\ \E sc \in SceneIds \ {cg_scene_id} : cg_scene_id' = sc
    /\ UNCHANGED <<cg_moments, runs>>
    /\ CueOnly

\* a moment is added to the list that every run of the pipeline is given
NewCueMoment ==
    /\ \A r \in Procs : runs[r].pc = "off"
    /\ Len(cg_moments) < MaxCueMoments
    /\ \E t \in CueTypes, f \in CueFrames, i \in CueIntensities :
          cg_moments' = Append(cg_moments,
              SoundMoment(<<"agg", Len(cg_moments) + 1>>, t, f, 9, i, "code", None))
    /\ UNCHANGED <<cg_scene_id, runs>>
    /\ CueOnly

\* a moment of a looping sound, which carries a duration, is added to the list
NewLoopingCueMoment ==
    /\ \A r \in Procs : runs[r].pc = "off"
    /\ Len(cg_moments) < MaxCueMoments
    /\ \E f \in CueFrames :
          cg_moments' = Append(cg_moments,
              SoundMoment(<<"agg", Len(cg_moments) + 1>>, "data_flow", f, 9, 10, "code", Some(45)))
    /\ UNCHANGED <<cg_scene_id, runs>>
    /\ CueOnly

\* a process running the pipeline starts: its string hash key is set
StartProcess(r) ==
    /\ runs[r].pc = "off"
    /\ \E k \in HashKeys : runs' = [runs EXCEPT ![r] = [IdleRun EXCEPT !.pc = "started", !.key = k]]
    /\ UNCHANGED <<cg_moments, cg_scene_id>>
    /\ CueOnly

\* CueGenerator(use_library=True).generate_cues(moments, scene_id)
GenerateCuesLibrary(r) ==
    /\ runs[r].pc = "started"
    /\ \E cs \in GenerateLibraryCues(cg_moments) :
          runs' = [runs EXCEPT ![r].pc = "done", ![r].mode = "library", ![r].cues = cs]
    /\ UNCHANGED <<cg_moments, cg_scene_id>>
    /\ CueOnly

\* CueGenerator(use_library=False, sfx_dir=d).generate_cues(moments, scene_id)
GenerateCuesCustom(r) ==
    /\ runs[r].pc = "started"
    /\ \E cs \in GenerateCustomCues(cg_moments, cg_scene_id) :
          runs' = [runs EXCEPT ![r].pc = "done", ![r].mode = "custom", ![r].cues = cs,
                               ![r].calls = GenerateCalls(runs[r].key, cg_scene_id, cg_moments)]
    /\ UNCHANGED <<cg_moments, cg_scene_id>>
    /\ CueOnly

\* CueGenerator(use_library=False, sfx_dir=None).generate_cues(...): ValueError
GenerateCuesNoDir(r) ==
    /\ runs[r].pc = "started"
    /\ runs' = [runs EXCEPT ![r].pc = "error", ![r].mode = "custom"]
    /\ UNCHANGED <<cg_moments, cg_scene_id>>
    /\ CueOnly

NextCue ==
    \/ NewScene
    \/ NewCueMoment
    \/ \E r \in Procs : \/ StartProcess(r)
                        \/ GenerateCuesLibrary(r)
                        \/ GenerateCuesCustom(r)
                        \/ GenerateCuesNoDir(r)

NextLibrary ==
    \/ NewCueMoment
    \/ NewLoopingCueMoment
    \/ \E r \in Procs : \/ StartProcess(r)
                        \/ GenerateCuesLibrary(r)

----------------------------------------------------------------------------
(* storyboard_updater.py *)

\* json.dump(document): the text of a document
Dump(doc) == <<"json", doc>>

\* the text of a file that was opened for writing and not yet written
EmptyText == <<"">>

\* json.load succeeds on the text of a document only
Parses(text) == Len(text) = 2 /\ text[1] = "json"
Parse(text) == text[2]

\* get_scene_by_id: the position of the first scene with that id, 0 for None
RECURSIVE FirstScene(_, _, _)
FirstScene(scenes, scene_id, i) ==
    IF i > Len(scenes) THEN 0
    ELSE IF scenes[i].id = scene_id THEN i
    ELSE FirstScene(scenes, scene_id, i + 1)

GetSceneById(doc, scene_id) == FirstScene(doc.scenes, scene_id, 1)

\* scene.get("sfx_cues", [])
SceneCues(scene) == IF scene.sfx_cues = None THEN <<>> ELSE scene.sfx_cues[1]

\* d[k] = v that keeps an existing entry
DictSetKeepOld(d, k, v) ==
    IF \E i \in 1..Len(d) : d[i][1] = k THEN d ELSE Append(d, <<k, v>>)

\* d[k] = v on a dict kept as its list of (key, value) in insertion order
DictSet(d, k, v) ==
    IF \E i \in 1..Len(d) : d[i][1] = k
    THEN [i \in 1..Len(d) |-> IF d[i][1] = k THEN <<k, v>> ELSE d[i]]
    ELSE Append(d, <<k, v>>)

\* {c["frame"]: c for c in cues}, continued from dict d
RECURSIVE DictByFrame(_, _)
DictByFrame(d, cues) ==
    IF cues = <<>> THEN d
    ELSE DictByFrame(DictSet(d, cues[1].frame, cues[1]), Tail(cues))

\* list(d.values())
DictValues(d) == [i \in 1..Len(d) |-> d[i][2]]

\* the merge branch of update_scene_cues
MergeCues(existing, cue_dicts) ==
    SortByFrame(DictValues(DictByFrame(DictByFrame(<<>>, existing), cue_dicts)))

\* update_scene_cues that adds a scene for an id the document does not have
UpdateSceneCuesUpsert(doc, scene_id, cues, mode) ==
    LET idx == GetSceneById(doc, scene_id)
        cue_dicts == [i \in 1..Len(cues) |-> ToDict(cues[i])]
    IN IF idx = 0
       THEN [doc EXCEPT !.scenes = Append(@, [id |-> scene_id, sfx_cues |-> Some(cue_dicts)])]
       ELSE IF mode = "replace"
            THEN [doc EXCEPT !.scenes[idx].sfx_cues = Some(cue_dicts)]
            ELSE [doc EXCEPT !.scenes[idx].sfx_cues =
                                Some(MergeCues(SceneCues(doc.scenes[idx]), cue_dicts))]

\* update_scene_cues whose replace branch extends the cues already there
UpdateSceneCuesAppending(doc, scene_id, cues, mode) ==
    LET idx == GetSceneById(doc, scene_id)
        cue_dicts == [i \in 1..Len(cues) |-> ToDict(cues[i])]
    IN IF idx = 0 THEN doc
       ELSE IF mode = "replace"
            THEN [doc EXCEPT !.scenes[idx].sfx_cues =
                                Some(SceneCues(doc.scenes[idx]) \o cue_dicts)]
            ELSE [doc EXCEPT !.scenes[idx].sfx_cues =
                                Some(MergeCues(SceneCues(doc.scenes[idx]), cue_dicts))]

\* update_scene_cues on a loaded document: the document afterwards
UpdateSceneCues(doc, scene_id, cues, mode) ==
    LET idx == GetSceneById(doc, scene_id)
        cue_dicts == [i \in 1..Len(cues) |-> ToDict(cues[i])]
    IN IF idx = 0 THEN doc
       ELSE IF mode = "replace"
            THEN [doc EXCEPT !.scenes[idx].sfx_cues = Some(cue_dicts)]
            ELSE [doc EXCEPT !.scenes[idx].sfx_cues =
                                Some(MergeCues(SceneCues(doc.scenes[idx]), cue_dicts))]

\* a backup that holds the document being saved
BackupTextNew(file_text, doc) == Dump(doc)

\* what save(backup=True) writes to the .bak file: the text read from the storyboard file
BackupText(file_text, doc) == file_text

StoryboardProcs == {1}

\* the callers that can hold an updater on the storyboard file
Callers == {1, 2}
SceneIdArgs == {"scene1", "scene2", "scene9"}
Modes == {"replace", "merge"}

ExistingCue == [sound |-> "existing", frame |-> 30, volume |-> Some(100), duration_frames |-> None]

NewSound60 == SFXCue("new_sound", 60, 80, None)
NewSound30 == SFXCue("new_sound", 30, 80, None)
AltSound60 == SFXCue("alt_sound", 60, 100, None)

\* the cue lists handed to update_scene_cues: empty, one cue, two cues out of
\* frame order, two cues at the same frame
NewCueLists == {<<>>, <<NewSound60>>, <<NewSound60, NewSound30>>, <<NewSound60, AltSound60>>}

\* the storyboard documents found on disk at the start
InitialDocs ==
    {[project |-> "demo",
      scenes |-> <<[id |-> "scene1", sfx_cues |-> c], [id |-> "scene2", sfx_cues |-> Some(<<>>)]>>] :
        c \in {None, Some(<<ExistingCue>>)}}

NoUpdate == [scene_id |-> "", mode |-> "", cues |-> <<>>, found |-> FALSE,
             before |-> <<>>, after |-> <<>>, doc_before |-> None, doc_after |-> None]

\* no update_storyboard call made yet
NoStoryboardCall == [state |-> "none", scene_id |-> "", cues |-> <<>>]

IdleUpdater == [doc |-> None, pc |-> "idle", text |-> None, prior |-> None,
                call |-> NoStoryboardCall]

InitStoryboard ==
    /\ sb_file = Dump(CHOOSE d \in InitialDocs : d.scenes[1].sfx_cues # None)
    /\ sb_bak = None
    /\ upd = [p \in Callers |-> IdleUpdater]
    /\ last_update = NoUpdate
    /\ sb_ops = [updates |-> 0, saves |-> 0]

\* the storyboard file is put in place before any caller starts
PlaceStoryboard ==
    /\ \A p \in Callers : upd[p] = IdleUpdater
    /\ sb_bak = None /\ sb_ops.saves = 0
    /\ \E d \in InitialDocs : sb_file' = Dump(d) /\ sb_file' # sb_file
    /\ UNCHANGED <<sb_bak, upd, last_update, sb_ops>>
    /\ StoryboardOnly

\* StoryboardUpdater.load: FileNotFoundError without the file, JSONDecodeError on
\* a text that is no document; both leave the updater as it was
Load(p) ==
    /\ upd[p].pc = "idle"
    /\ sb_file # None /\ Parses(sb_file)
    /\ upd' = [upd EXCEPT ![p].doc = Some(Parse(sb_file))]
    /\ UNCHANGED <<sb_file, sb_bak, last_update, sb_ops>>
    /\ StoryboardOnly

\* StoryboardUpdater.update_scene_cues(scene_id, cues, mode) on a loaded updater
UpdateCues(p) ==
    /\ upd[p].pc = "idle"
    /\ upd[p].doc # None
    /\ sb_ops.updates < MaxUpdates
    /\ \E scene_id \in SceneIdArgs, cues \in NewCueLists, mode \in Modes :
          LET doc == upd[p].doc[1]
              idx == GetSceneById(doc, scene_id)
              after == UpdateSceneCues(doc, scene_id, cues, mode)
          IN /\ upd' = [upd EXCEPT ![p].doc = Some(after)]
             /\ last_update' =
                   [scene_id |-> scene_id, mode |-> mode, cues |-> cues, found |-> idx # 0,
                    before |-> IF idx = 0 THEN <<>> ELSE SceneCues(doc.scenes[idx]),
                    after |-> IF idx = 0 THEN <<>> ELSE SceneCues(after.scenes[idx]),
                    doc_before |-> Some(doc), doc_after |-> Some(after)]
    /\ sb_ops' = [sb_ops EXCEPT !.updates = @ + 1]
    /\ UNCHANGED <<sb_file, sb_bak>>
    /\ StoryboardOnly

\* save(backup): the checks and, for a backup, storyboard_path.read_text()
SaveBegin(p) ==
    /\ upd[p].pc = "idle"
    /\ upd[p].doc # None
    /\ sb_ops.saves < MaxSaves
    /\ \E backup \in BOOLEAN :
          IF backup /\ sb_file # None
          THEN upd' = [upd EXCEPT ![p].pc = "backup_open", ![p].text = Some(sb_file),
                                  ![p].prior = Some(sb_file)]
          ELSE upd' = [upd EXCEPT ![p].pc = "open", ![p].text = None, ![p].prior = None]
    /\ sb_ops' = [sb_ops EXCEPT !.saves = @ + 1]
    /\ UNCHANGED <<sb_file, sb_bak, last_update>>
    /\ StoryboardOnly

\* backup_path.write_text(...): the .bak file is opened for writing
BackupOpen(p) ==
    /\ upd[p].pc = "backup_open"
    /\ sb_bak' = Some(EmptyText)
    /\ upd' = [upd EXCEPT ![p].pc = "backup_write"]
    /\ UNCHANGED <<sb_file, last_update, sb_ops>>
    /\ StoryboardOnly

\* a backup whose text never reaches the .bak file
BackupWriteSkipped(p) ==
    /\ upd[p].pc = "backup_write"
    /\ upd' = [upd EXCEPT ![p].pc = "open", ![p].text = None]
    /\ UNCHANGED <<sb_file, sb_bak, last_update, sb_ops>>
    /\ StoryboardOnly

\* backup_path.write_text(...): the text is written to the .bak file
BackupWrite(p) ==
    /\ upd[p].pc = "backup_write"
    /\ sb_bak' = Some(BackupText(upd[p].text[1], upd[p].doc[1]))
    /\ upd' = [upd EXCEPT ![p].pc = "open", ![p].text = None]
    /\ UNCHANGED <<sb_file, last_update, sb_ops>>
    /\ StoryboardOnly

\* open(self.storyboard_path, "w"): the storyboard file is truncated
FileOpen(p) ==
    /\ upd[p].pc = "open"
    /\ sb_file' = EmptyText
    /\ upd' = [upd EXCEPT ![p].pc = "dump"]
    /\ UNCHANGED <<sb_bak, last_update, sb_ops>>
    /\ StoryboardOnly

\* json.dump(self._storyboard, f, indent=2) and the close of the file
FileDump(p) ==
    /\ upd[p].pc = "dump"
    /\ sb_file' = Dump(upd[p].doc[1])
    /\ upd' = [upd EXCEPT ![p].pc = "idle"]
    /\ UNCHANGED <<sb_bak, last_update, sb_ops>>
    /\ StoryboardOnly

\* the scene a caller of update_storyboard passes cues for
SceneOfCaller(p) == IF p = 1 THEN "scene1" ELSE "scene2"

\* update_storyboard(storyboard_path, {scene_id: cues}): StoryboardUpdater(path),
\* updater.load() and updater.update_all_scenes(scene_cues, "replace")
UpdateStoryboardLoad(p) ==
    /\ upd[p].pc = "idle" /\ upd[p].call.state = "none"
    /\ \E cues \in NewCueLists \ {<<>>} :
          LET call == [state |-> "loaded", scene_id |-> SceneOfCaller(p), cues |-> cues]
          IN IF sb_file = None \/ ~Parses(sb_file)
             THEN upd' = [upd EXCEPT ![p].call = [call EXCEPT !.state = "raised"]]
             ELSE upd' = [upd EXCEPT ![p].call = call,
                                     ![p].doc = Some(UpdateSceneCues(Parse(sb_file), call.scene_id,
                                                                     cues, "replace"))]
    /\ UNCHANGED <<sb_file, sb_bak, last_update, sb_ops>>
    /\ StoryboardOnly

\* update_storyboard: updater.save(backup=True) up to storyboard_path.read_text()
UpdateStoryboardSave(p) ==
    /\ upd[p].pc = "idle" /\ upd[p].call.state = "loaded"
    /\ IF sb_file # None
       THEN upd' = [upd EXCEPT ![p].pc = "backup_open", ![p].text = Some(sb_file),
                               ![p].prior = Some(sb_file), ![p].call.state = "saving"]
       ELSE upd' = [upd EXCEPT ![p].pc = "open", ![p].text = None, ![p].prior = None,
                               ![p].call.state = "saving"]
    /\ UNCHANGED <<sb_file, sb_bak, last_update, sb_ops>>
    /\ StoryboardOnly

NextConcurrent ==
    \/ PlaceStoryboard
    \/ \E p \in Callers :
          \/ UpdateStoryboardLoad(p)
          \/ UpdateStoryboardSave(p)
          \/ BackupOpen(p)
          \/ BackupWrite(p)
          \/ FileOpen(p)
          \/ FileDump(p)

NextStoryboard ==
    \/ PlaceStoryboard
    \/ \E p \in StoryboardProcs :
          \/ Load(p)
          \/ UpdateCues(p)
          \/ SaveBegin(p)
          \/ BackupOpen(p)
          \/ BackupWrite(p)
          \/ FileOpen(p)
          \/ FileDump(p)

----------------------------------------------------------------------------
(* narration_sync.py *)
(* Confidence and intensity of narration moments are kept in hundredths:   *)
(* 0.85 is 85.  Times are kept in tenths of a second.                      *)

\* SoundMoment(type, frame, confidence, context, intensity, source="narration")
\* with confidence and intensity in hundredths; ref tells the objects apart
SoundMoment100(ref, type, frame, confidence, context, intensity) ==
    [ref        |-> ref,
     type       |-> type,
     frame      |-> Max2(0, frame),
     confidence |-> Max2(0, Min2(100, confidence)),
     context    |-> context,
     intensity  |-> Max2(0, Min2(100, intensity)),
     source     |-> "narration"]

\* WORD_PATTERNS, in table order
WordPatterns ==
    << [name |-> "large_number",    moment_type |-> "counter",    intensity |-> 80, confidence |-> 85],
       [name |-> "multiplier",      moment_type |-> "reveal",     intensity |-> 90, confidence |-> 90],
       [name |-> "problem_word",    moment_type |-> "warning",    intensity |-> 70, confidence |-> 75],
       [name |-> "solution_word",   moment_type |-> "success",    intensity |-> 80, confidence |-> 80],
       [name |-> "revelation_word", moment_type |-> "reveal",     intensity |-> 85, confidence |-> 80],
       [name |-> "attention_word",  moment_type |-> "highlight",  intensity |-> 60, confidence |-> 60],
       [name |-> "emphasis_word",   moment_type |-> "highlight",  intensity |-> 70, confidence |-> 70],
       [name |-> "transition_word", moment_type |-> "transition", intensity |-> 60, confidence |-> 65] >>

\* the words a narration is made of; the text is these words joined by blanks
NarrationWords == {"This", "87x", "2.5x", "faster."}

\* pattern.finditer on one word of the text followed by the word extraction of
\* _find_timestamp_for_position: for every match of the pattern inside the word,
\* left to right, the matched text and the lower-cased alphanumeric run around
\* the start of the match.
\*   "87x":     large_number matches "87x", multiplier matches "87x"
\*   "2.5x":    large_number matches "2.5x" and the run at its start is "2";
\*              multiplier matches "5x" (a word boundary follows the dot)
\*   "faster.": solution_word matches "faster"
\*   "This":    attention_word matches "This" (IGNORECASE), the run lower-cased is "this"
FindIter(pattern_name, w) ==
    CASE pattern_name = "large_number" /\ w = "87x"  -> << [text |-> "87x", word |-> "87x"] >>
      [] pattern_name = "large_number" /\ w = "2.5x" -> << [text |-> "2.5x", word |-> "2"] >>
      [] pattern_name = "multiplier" /\ w = "87x"    -> << [text |-> "87x", word |-> "87x"] >>
      [] pattern_name = "multiplier" /\ w = "2.5x"   -> << [text |-> "5x", word |-> "5x"] >>
      [] pattern_name = "solution_word" /\ w = "faster." -> << [text |-> "faster", word |-> "faster"] >>
      [] pattern_name = "attention_word" /\ w = "This"   -> << [text |-> "This", word |-> "this"] >>
      [] OTHER -> << >>

\* ts.word.lower().strip(".,!?;:'\"")
WordLower(w) ==
    CASE w = "This" -> "this"
      [] w = "faster." -> "faster"
      [] OTHER -> w

\* WordTimestamp.start_frame: int(start_seconds * 30), exact for the times used here
StartFrame(ts) == (ts.start * 30) \div 10

\* _build_word_lookup: for every key the timestamps of that word, in list order
BuildWordLookup(timestamps) ==
    [k \in {WordLower(timestamps[i].word) : i \in 1..Len(timestamps)} |->
        SelectSeq(timestamps, LAMBDA ts : WordLower(ts.word) = k)]

RECURSIVE MatchesOfWords(_, _, _)
\* the matches of one pattern in the text, in text order: words from position pos on
MatchesOfWords(pattern, text, pos) ==
    IF pos > Len(text) THEN << >>
    ELSE [j \in 1..Len(FindIter(pattern.name, text[pos])) |->
             [pattern |-> pattern, pos |-> pos,
              text |-> FindIter(pattern.name, text[pos])[j].text,
              word |-> FindIter(pattern.name, text[pos])[j].word]]
         \o MatchesOfWords(pattern, text, pos + 1)

RECURSIVE AllMatches(_, _)
\* "for pattern in self.patterns: for match in pattern.pattern.finditer(narration)"
AllMatches(text, k) ==
    IF k > Len(WordPatterns) THEN << >>
    ELSE MatchesOfWords(WordPatterns[k], text, 1) \o AllMatches(text, k + 1)

\* _find_timestamp_for_position on a lookup table: the first timestamp left for the
\* word, None when the word is no key or its list is empty
FindTimestamp(word, word_lookup) ==
    IF word \in DOMAIN word_lookup /\ word_lookup[word] # << >>
    THEN Some(Head(word_lookup[word]))
    ELSE None

\* a lookup that hands out the first timestamp of the word without removing it
PopTimestampKept(word, word_lookup) == word_lookup

\* word_lookup[word].pop(0)
PopTimestamp(word, word_lookup) ==
    IF word \in DOMAIN word_lookup /\ word_lookup[word] # << >>
    THEN [word_lookup EXCEPT ![word] = Tail(@)]
    ELSE word_lookup

RECURSIVE MatchLoop(_, _, _, _)
\* the body of the two loops of analyze over the remaining matches; yields the
\* moments appended and, for every match, the timestamp the lookup returned
MatchLoop(matches, word_lookup, moments, found) ==
    IF matches = << >> THEN [moments |-> moments, found |-> found]
    ELSE LET m == Head(matches)
             timestamp == FindTimestamp(m.word, word_lookup)
             entry == [pattern |-> m.pattern.name, pos |-> m.pos, word |-> m.word,
                       timestamp |-> timestamp]
         IN IF timestamp # None
            THEN MatchLoop(Tail(matches), PopTimestamp(m.word, word_lookup),
                           Append(moments,
                                  SoundMoment100(Len(moments) + 1, m.pattern.moment_type,
                                                 StartFrame(timestamp[1]), m.pattern.confidence,
                                                 <<m.text, m.pattern.name>>, m.pattern.intensity)),
                           Append(found, entry))
            ELSE MatchLoop(Tail(matches), word_lookup, moments, Append(found, entry))

\* the replacement test of _deduplicate_nearby without the confidence comparison
ReplacesAlways(moment, last) == TRUE

\* "elif moment.confidence > result[-1].confidence"
Replaces(moment, last) == moment.confidence > last.confidence

RECURSIVE DedupLoop(_, _, _)
\* the loop of _deduplicate_nearby over sorted_moments[1:]
DedupLoop(rest, result, min_gap_frames) ==
    IF rest = << >> THEN result
    ELSE LET moment == Head(rest)
             last == result[Len(result)]
         IN IF moment.frame - last.frame >= min_gap_frames
            THEN DedupLoop(Tail(rest), Append(result, moment), min_gap_frames)
            ELSE IF Replaces(moment, last)
                 THEN DedupLoop(Tail(rest), [result EXCEPT ![Len(result)] = moment], min_gap_frames)
                 ELSE DedupLoop(Tail(rest), result, min_gap_frames)

\* _deduplicate_nearby(moments) with its default min_gap_frames = 15
DeduplicateNearby(moments) ==
    IF moments = << >> THEN << >>
    ELSE LET sorted_moments == SortByFrame(moments)
         IN DedupLoop(Tail(sorted_moments), <<Head(sorted_moments)>>, 15)

\* how long a spoken word lasts, in tenths of a second (3 and 15 frames)
WordDurations == {1, 5}

InitNarration ==
    /\ narration = << >>
    /\ word_timestamps = << >>
    /\ narr_clock = 0
    /\ narr_matches = << >>
    /\ narr_raw = << >>
    /\ narr_moments = << >>
    /\ npc = "build"
    /\ narr_fps = 30

\* one more word of the narration, spoken at the current time, with its WordTimestamp
SayWord ==
    /\ npc = "build" /\ Len(narration) < MaxWords
    /\ \E w \in NarrationWords, d \in WordDurations :
          /\ narration' = Append(narration, w)
          /\ word_timestamps' = Append(word_timestamps,
                                       [word |-> w, start |-> narr_clock, end |-> narr_clock + d,
                                        id |-> Len(word_timestamps) + 1])
          /\ narr_clock' = narr_clock + d
    /\ UNCHANGED <<narr_matches, narr_raw, narr_moments, npc, narr_fps>>
    /\ NarrationOnly

\* one more word of the narration for which the timestamp list has no entry
SayWordUntimed ==
    /\ npc = "build" /\ Len(narration) < MaxWords
    /\ \E w \in NarrationWords, d \in WordDurations :
          /\ narration' = Append(narration, w)
          /\ narr_clock' = narr_clock + d
    /\ UNCHANGED <<word_timestamps, narr_matches, narr_raw, narr_moments, npc, narr_fps>>
    /\ NarrationOnly

\* the frame rates an analyzer is constructed with
AnalyzerFpsValues == {24, 30, 60}

\* NarrationSyncAnalyzer(fps).analyze(narration, word_timestamps)
Analyze ==
    /\ npc = "build"
    /\ narr_fps' \in AnalyzerFpsValues
    /\ LET word_lookup == BuildWordLookup(word_timestamps)
           r == MatchLoop(AllMatches(narration, 1), word_lookup, << >>, << >>)
       IN /\ narr_matches' = r.found
          /\ narr_raw' = r.moments
          /\ narr_moments' = DeduplicateNearby(r.moments)
    /\ npc' = "done"
    /\ UNCHANGED <<narration, word_timestamps, narr_clock>>
    /\ NarrationOnly

NextNarration ==
    \/ SayWord
    \/ SayWordUntimed
    \/ Analyze

----------------------------------------------------------------------------
(* llm_analyzer.py *)
(* timestamp_seconds and duration_seconds are kept in tenths of a second,  *)
(* intensity and confidence in tenths.                                     *)

\* a JSON value: a number, a string, or a field that is absent from the object
JNum(n) == [tag |-> "num", num |-> n, str |-> ""]
JStr(x) == [tag |-> "str", num |-> 0, str |-> x]
JAbsent == [tag |-> "absent", num |-> 0, str |-> ""]

\* item.get(key, default)
ItemGet(value, default) == IF value.tag = "absent" THEN default ELSE value

\* LLMAnalysisConfig(): max_moments and min_gap_seconds (in tenths of a second)
LLMAnalysisConfig == [max_moments |-> 8, min_gap_seconds |-> 5]

KnownTypes == {"element_appear", "reveal", "transition", "counter", "warning", "success",
               "highlight", "data_flow", "text_reveal", "lock", "connection"}

\* int(timestamp * self.fps) for a timestamp in tenths of a second; the product of
\* the two floats is below the exact value for 4.1 * 30 and 4.6 * 25
IntTimesFps(timestamp, fps) ==
    IF (timestamp = 41 /\ fps = 30) \/ (timestamp = 46 /\ fps = 25)
    THEN (timestamp * fps) \div 10 - 1
    ELSE (timestamp * fps) \div 10

\* int(self.config.min_gap_seconds * self.fps)
MinGapFrames(fps) == (LLMAnalysisConfig.min_gap_seconds * fps) \div 10

\* the body of the loop of _parse_response for one item: "skip" for continue,
\* "TypeError" when a comparison of a non-number with a number raises, else the moment
ParseItem(item, k, duration_seconds, fps) ==
    IF ~item.isdict THEN [out |-> "skip"]
    ELSE LET timestamp == ItemGet(item.timestamp_seconds, JNum(0))
             moment_type == ItemGet(item.type, JStr("element_appear"))
             intensity == ItemGet(item.intensity, JNum(7))
         IN IF timestamp.tag # "num" THEN [out |-> "TypeError"]
            ELSE IF ~(0 <= timestamp.num /\ timestamp.num <= duration_seconds)
                 THEN [out |-> "skip"]
            ELSE IF intensity.tag # "num" THEN [out |-> "TypeError"]
            ELSE [out |-> "moment",
                  moment |-> SoundMoment(<<"llm", k>>,
                                         IF moment_type.tag = "str" /\ moment_type.str \in KnownTypes
                                         THEN moment_type.str ELSE "element_appear",
                                         IntTimesFps(timestamp.num, fps),
                                         7,
                                         Max2(3, Min2(10, intensity.num)),
                                         "llm", None)]

RECURSIVE ParseLoop(_, _, _, _, _)
\* the loop of _parse_response over data[k..]: the exception that ended it or the moments
ParseLoop(data, k, moments, duration_seconds, fps) ==
    IF k > Len(data) THEN [exc |-> "", moments |-> moments]
    ELSE LET r == ParseItem(data[k], k, duration_seconds, fps)
         IN IF r.out = "TypeError" THEN [exc |-> "TypeError", moments |-> << >>]
            ELSE IF r.out = "skip" THEN ParseLoop(data, k + 1, moments, duration_seconds, fps)
            ELSE ParseLoop(data, k + 1, Append(moments, r.moment), duration_seconds, fps)

\* "if moment.frame - filtered[-1].frame >= min_gap_frames"
GapOk(moment, last, min_gap_frames) == moment.frame - last.frame >= min_gap_frames

RECURSIVE GapLoop(_, _, _)
\* the gap loop of _apply_constraints over moments[1:]
GapLoop(rest, kept, min_gap_frames) ==
    IF rest = << >> THEN kept
    ELSE IF GapOk(Head(rest), kept[Len(kept)], min_gap_frames)
         THEN GapLoop(Tail(rest), Append(kept, Head(rest)), min_gap_frames)
         ELSE GapLoop(Tail(rest), kept, min_gap_frames)

\* filtered.sort(key=lambda m: m.intensity, reverse=True): stable, descending
RECURSIVE InsertByIntensity(_, _)
InsertByIntensity(l, m) ==
    IF l = << >> THEN <<m>>
    ELSE IF l[Len(l)].intensity >= m.intensity THEN Append(l, m)
    ELSE Append(InsertByIntensity(SubSeq(l, 1, Len(l) - 1), m), l[Len(l)])

RECURSIVE SortByIntensity(_)
SortByIntensity(l) ==
    IF l = << >> THEN << >>
    ELSE InsertByIntensity(SortByIntensity(SubSeq(l, 1, Len(l) - 1)), l[Len(l)])

\* the first part of _apply_constraints: sort by frame, gap loop
GapFiltered(moments, fps) ==
    IF moments = << >> THEN << >>
    ELSE LET sorted == SortByFrame(moments)
         IN GapLoop(Tail(sorted), <<Head(sorted)>>, MinGapFrames(fps))

\* a cap that keeps the first max_moments moments of the frame order
CapMomentsFirst(kept) ==
    IF Len(kept) > LLMAnalysisConfig.max_moments
    THEN SubSeq(kept, 1, LLMAnalysisConfig.max_moments)
    ELSE kept

\* the second part of _apply_constraints: "if len(filtered) > self.config.max_moments"
CapMoments(kept) ==
    IF Len(kept) > LLMAnalysisConfig.max_moments
    THEN SortByFrame(SubSeq(SortByIntensity(kept), 1, LLMAnalysisConfig.max_moments))
    ELSE kept

\* _apply_constraints
ApplyConstraints(moments, fps) == CapMoments(GapFiltered(moments, fps))

\* _parse_response(response, duration_seconds); the response is "no_array" (no
\* "[...]" in the text), "invalid_json" (json.loads raises JSONDecodeError) or
\* "array" (the text holds the JSON array data)
ParseResponse(response, data, duration_seconds, fps) ==
    IF response = "no_array" THEN [exc |-> "", moments |-> << >>]
    ELSE IF response = "invalid_json" THEN [exc |-> "", moments |-> << >>]
    ELSE LET r == ParseLoop(data, 1, << >>, duration_seconds, fps)
         IN IF r.exc # "" THEN r
            ELSE [exc |-> "", moments |-> ApplyConstraints(r.moments, fps)]

\* analyze without the "except Exception" handler
LlmAnalyzeNoExcept(client, response, data, duration_seconds, fps) ==
    IF client = "none" THEN [exc |-> "", moments |-> << >>]
    ELSE IF client = "raises" THEN [exc |-> "Exception", moments |-> << >>]
    ELSE ParseResponse(response, data, duration_seconds, fps)

\* LLMAnalyzer.analyze: client is "none" (llm_client=None), "raises" (_call_llm
\* raises) or "answers"; every Exception of the try block ends in "return []"
LlmAnalyze(client, response, data, duration_seconds, fps) ==
    IF client = "none" THEN [exc |-> "", moments |-> << >>]
    ELSE IF client = "raises" THEN [exc |-> "", moments |-> << >>]
    ELSE LET r == ParseResponse(response, data, duration_seconds, fps)
         IN IF r.exc # "" THEN [exc |-> "", moments |-> << >>] ELSE r

\* duration of the analyzed scene, in tenths of a second
SceneDuration == 60
FpsValues == {25, 30}

\* a well-formed item at the given timestamp
GoodItem(timestamp, intensity) ==
    [isdict |-> TRUE, timestamp_seconds |-> JNum(timestamp), type |-> JStr("reveal"),
     intensity |-> JNum(intensity)]

\* how far after the previous item a well-formed item lies (tenths of a second),
\* with its intensity
GoodSteps == {<<5, 5>>, <<5, 9>>, <<2, 9>>}

\* items that are not what the prompt asked for
OddItems ==
    { [isdict |-> FALSE, timestamp_seconds |-> JAbsent, type |-> JAbsent, intensity |-> JAbsent],
      [isdict |-> TRUE, timestamp_seconds |-> JStr("soon"), type |-> JStr("reveal"), intensity |-> JNum(5)],
      [isdict |-> TRUE, timestamp_seconds |-> JNum(10), type |-> JStr("reveal"), intensity |-> JStr("loud")],
      [isdict |-> TRUE, timestamp_seconds |-> JNum(990), type |-> JStr("reveal"), intensity |-> JStr("loud")],
      [isdict |-> TRUE, timestamp_seconds |-> JNum(20), type |-> JNum(5), intensity |-> JNum(1)],
      [isdict |-> TRUE, timestamp_seconds |-> JAbsent, type |-> JStr("zap"), intensity |-> JAbsent] }

NoCall == [client |-> "", response |-> "", fps |-> 30, reversed |-> FALSE]

InitLlm ==
    /\ llm_items = << >>
    /\ llm_clock = 0
    /\ llm_call = NoCall
    /\ llm_filtered = << >>
    /\ llm_result = [exc |-> "", moments |-> << >>]
    /\ lpc = "build"

\* the client's answer gets one more well-formed item, later than the ones before
AddItem ==
    /\ lpc = "build" /\ Len(llm_items) < MaxItems
    /\ \E st \in GoodSteps :
          LET timestamp == IF llm_items = << >> THEN 0 ELSE llm_clock + st[1]
          IN /\ llm_items' = Append(llm_items, GoodItem(timestamp, st[2]))
             /\ llm_clock' = timestamp
    /\ UNCHANGED <<llm_call, llm_filtered, llm_result, lpc>>
    /\ LlmOnly

\* the client's answer gets one more item, well-formed or not
AddAnyItem ==
    /\ lpc = "build" /\ Len(llm_items) < MaxOddItems
    /\ \E item \in OddItems \cup {GoodItem(15, 5), GoodItem(30, 9)} :
          llm_items' = Append(llm_items, item)
    /\ UNCHANGED <<llm_clock, llm_call, llm_filtered, llm_result, lpc>>
    /\ LlmOnly

RECURSIVE Reverse(_)
Reverse(l) == IF l = << >> THEN << >> ELSE Append(Reverse(Tail(l)), Head(l))

\* analyze(...) with a client that answers with the items, in the order they were
\* put together or in the opposite order
AnalyzeAnswer ==
    /\ lpc = "build"
    /\ \E fps \in FpsValues, reversed \in BOOLEAN :
          LET data == IF reversed THEN Reverse(llm_items) ELSE llm_items
              parsed == ParseLoop(data, 1, << >>, SceneDuration, fps)
          IN /\ llm_call' = [client |-> "answers", response |-> "array", fps |-> fps,
                             reversed |-> reversed]
             /\ llm_filtered' = IF parsed.exc = "" THEN GapFiltered(parsed.moments, fps) ELSE << >>
             /\ llm_result' = LlmAnalyze("answers", "array", data, SceneDuration, fps)
    /\ lpc' = "done"
    /\ UNCHANGED <<llm_items, llm_clock>>
    /\ LlmOnly

\* analyze(...) without a client, with a client that raises, or with a client
\* whose answer holds no JSON array or an invalid one
AnalyzeFailure ==
    /\ lpc = "build"
    /\ \E c \in {<<"none", "">>, <<"raises", "">>, <<"answers", "no_array">>,
                 <<"answers", "invalid_json">>} :
          /\ llm_call' = [client |-> c[1], response |-> c[2], fps |-> 30, reversed |-> FALSE]
          /\ llm_result' = LlmAnalyze(c[1], c[2], llm_items, SceneDuration, 30)
    /\ llm_filtered' = << >>
    /\ lpc' = "done"
    /\ UNCHANGED <<llm_items, llm_clock>>
    /\ LlmOnly

NextLlm ==
    \/ AddItem
    \/ AnalyzeAnswer

NextLlmFailure ==
    \/ AddAnyItem
    \/ AnalyzeAnswer
    \/ AnalyzeFailure

----------------------------------------------------------------------------
(* scene_analyzer.py and sfx_orchestrator.py *)

\* aggregate_moments as a function of its arguments
AggregateMomentsOf(code, narr, llm, c) ==
    LET combined == code \o narr \o llm
    IN IF combined = <<>> THEN <<>>
       ELSE EnforceDensity(EdgeStep(MergeNearbyMoments(SortByFrame(combined),
                                                       c.merge_window_frames), c),
                           c.max_per_second, c.min_gap_frames, c.fps)

\* the frame rate the orchestrator and its scene analyzer are built with
OrchFps == 30

\* _estimate_duration(code): the duration constant the code declares, 10 seconds
\* of frames when it declares none
EstimateDuration(declared) == IF declared = None THEN 10 * OrchFps ELSE declared[1]

\* int(scene.get("audio_duration_seconds", 10) * self.fps) on a storyboard scene
\* that carries no audio_duration_seconds
FallbackDuration == 10 * OrchFps

\* SceneAnalyzer.analyze_scene(scene_path): FileNotFoundError when the path does
\* not exist; otherwise the estimated duration and the moments the detectors
\* find in the file, sorted by frame
AnalyzeScene(exists, declared, found_moments) ==
    IF ~exists
    THEN [exc |-> "FileNotFoundError", duration_frames |-> 0, notes |-> <<>>, moments |-> <<>>]
    ELSE [exc |-> "", duration_frames |-> EstimateDuration(declared), notes |-> <<>>,
          moments |-> SortByFrame(found_moments)]

\* the body of the loop of analyze_scenes for one scene: file is what
\* _find_scene_file and the later opening of the file meet
\*   "missing":  _find_scene_file returns None
\*   "vanished": _find_scene_file returns a path that is gone when analyze_scene runs
\*   "found":    the file is there
AnalyzeOneScene(scene_id, file) ==
    IF file.kind = "missing"
    THEN [scene_id |-> scene_id, duration_frames |-> FallbackDuration,
          notes |-> <<"Scene file not found">>, moments |-> <<>>]
    ELSE LET r == AnalyzeScene(file.kind = "found", file.declared, file.moments)
         IN IF r.exc # ""
            THEN [scene_id |-> scene_id, duration_frames |-> FallbackDuration,
                  notes |-> <<<<"Analysis error: ", r.exc>>>>, moments |-> <<>>]
            ELSE [scene_id |-> scene_id, duration_frames |-> r.duration_frames,
                  notes |-> r.notes, moments |-> r.moments]

RECURSIVE AnalyzeScenesLoop(_, _, _, _)
\* the loop of analyze_scenes over updater.get_scenes(): results keyed by scene id
AnalyzeScenesLoop(scenes, i, files, results) ==
    IF i > Len(scenes) THEN results
    ELSE AnalyzeScenesLoop(scenes, i + 1, files,
             DictSet(results, scenes[i].id, AnalyzeOneScene(scenes[i].id, files[scenes[i].id])))

\* SFXOrchestrator.analyze_scenes() on a storyboard that loads
AnalyzeScenes(doc, files) == AnalyzeScenesLoop(doc.scenes, 1, files, <<>>)

\* the aggregate_moments call of generate_sfx_cues for one analysis
AggregateForScene(analysis) ==
    AggregateMomentsOf(analysis.moments, <<>>, <<>>, DefaultConfig)

RECURSIVE AllCues(_, _)
\* step 2 of generate_sfx_cues: the dicts all_cues it can build over analyses[i..],
\* each a list of (scene id, cues)
AllCues(analyses, i) ==
    IF i > Len(analyses) THEN {<<>>}
    ELSE {<<<<analyses[i][1], cs>>>> \o rest :
             cs \in GenerateLibraryCues(AggregateForScene(analyses[i][2])),
             rest \in AllCues(analyses, i + 1)}

RECURSIVE SumLen(_, _)
\* the running totals of step 2: sum of len(...) over the entries
SumLen(lists, i) == IF i > Len(lists) THEN 0 ELSE Len(lists[i]) + SumLen(lists, i + 1)

RECURSIVE UpdateAllScenes(_, _, _)
\* update_all_scenes(all_cues, mode="replace"): the document afterwards
UpdateAllScenes(doc, all_cues, i) ==
    IF i > Len(all_cues) THEN doc
    ELSE UpdateAllScenes(UpdateSceneCues(doc, all_cues[i][1], all_cues[i][2], "replace"),
                         all_cues, i + 1)

\* a run that also writes in a dry run
WritesStoryboardAlways(dry_run) == TRUE

\* "if not dry_run"
WritesStoryboard(dry_run) == ~dry_run

OrchScenes == {"scene1", "scene2"}

CodeMoment(k, frame) == SoundMoment(<<"code", k>>, "reveal", frame, 9, 7, "code", None)

\* what the detectors find in a scene file
FoundMoments == {<<>>, <<CodeMoment(1, 0)>>, <<CodeMoment(1, 0), CodeMoment(2, 40), CodeMoment(3, 45)>>}

\* the duration constant of a scene file: the file with three moments declares
\* "const DURATION = 50", the others declare none
DeclaredDuration(ms) == IF Len(ms) = 3 THEN Some(50) ELSE None

SceneFiles ==
    {[kind |-> "missing", declared |-> None, moments |-> <<>>],
     [kind |-> "vanished", declared |-> None, moments |-> <<>>]}
    \cup {[kind |-> "found", declared |-> DeclaredDuration(ms), moments |-> ms] : ms \in FoundMoments}

\* text of a storyboard file that json.load rejects
CorruptText == <<"{ scenes: [">>

NoSceneCall == [made |-> FALSE, exists |-> FALSE, exc |-> "", notes |-> <<>>, moments |-> <<>>]

InitOrch ==
    /\ scene_files = [sc \in OrchScenes |-> [kind |-> "found", declared |-> None, moments |-> <<>>]]
    /\ scene_call = NoSceneCall
    /\ orch_runs = <<>>

\* the project is prepared: a scene's timeline file is put in place or taken away
PlaceSceneFile ==
    /\ orch_runs = <<>>
    /\ \E sc \in OrchScenes, f \in SceneFiles :
          /\ scene_files[sc] # f
          /\ scene_files' = [scene_files EXCEPT ![sc] = f]
    /\ UNCHANGED <<scene_call, orch_runs, sb_file, sb_bak>>
    /\ OrchOnly

\* the project is prepared: the storyboard file is damaged or taken away
DamageStoryboard ==
    /\ orch_runs = <<>>
    /\ sb_file # None /\ Parses(sb_file)
    /\ sb_file' \in {CorruptText, None}
    /\ UNCHANGED <<scene_files, scene_call, orch_runs, sb_bak>>
    /\ OrchOnly

\* SceneAnalyzer(fps).analyze_scene(path) called directly on a scene's file
AnalyzeSceneCall ==
    /\ orch_runs = <<>>
    /\ \E sc \in OrchScenes :
          LET r == AnalyzeScene(scene_files[sc].kind = "found", scene_files[sc].declared,
                                scene_files[sc].moments)
          IN scene_call' = [made |-> TRUE, exists |-> scene_files[sc].kind = "found",
                            exc |-> r.exc, notes |-> r.notes, moments |-> r.moments]
    /\ UNCHANGED <<scene_files, orch_runs, sb_file, sb_bak>>
    /\ OrchOnly

\* the record of a generate_sfx_cues call that an exception left
RaisedRun(dry_run, exc) ==
    [dry_run |-> dry_run, raised |-> exc, project_id |-> "", scenes_analyzed |-> 0,
     moments_detected |-> 0, cues_generated |-> 0, scenes_updated |-> <<>>, errors |-> <<>>,
     analyses |-> <<>>, all_cues |-> <<>>, storyboard |-> "corrupt",
     file_before |-> sb_file, bak_before |-> sb_bak, file_after |-> sb_file, bak_after |-> sb_bak]

\* SFXOrchestrator.generate_sfx_cues(dry_run=dry_run)
GenerateSfxCues ==
    /\ Len(orch_runs) < MaxRuns
    /\ \E dry_run \in BOOLEAN :
          IF sb_file # None /\ ~Parses(sb_file)
          THEN \* _get_project_id: load_storyboard raises json.JSONDecodeError
               /\ orch_runs' = Append(orch_runs, RaisedRun(dry_run, "JSONDecodeError"))
               /\ UNCHANGED <<sb_file, sb_bak>>
          ELSE IF sb_file = None
          THEN \* analyze_scenes raises FileNotFoundError, which step 1 catches
               /\ orch_runs' = Append(orch_runs,
                     [RaisedRun(dry_run, "") EXCEPT !.project_id = "project_dir",
                                                    !.errors = <<"Storyboard not found">>,
                                                    !.storyboard = "missing"])
               /\ UNCHANGED <<sb_file, sb_bak>>
          ELSE LET doc == Parse(sb_file)
                   analyses == AnalyzeScenes(doc, scene_files)
               IN \E all_cues \in AllCues(analyses, 1) :
                     LET updated == UpdateAllScenes(doc, all_cues, 1)
                         writes == WritesStoryboard(dry_run)
                         file_after == IF writes THEN Dump(updated) ELSE sb_file
                         bak_after == IF writes THEN Some(BackupText(sb_file, updated)) ELSE sb_bak
                     IN /\ sb_file' = file_after
                        /\ sb_bak' = bak_after
                        /\ orch_runs' = Append(orch_runs,
                              [dry_run |-> dry_run, raised |-> "", project_id |-> doc.project,
                               scenes_analyzed |-> Len(analyses),
                               moments_detected |->
                                   SumLen([i \in 1..Len(analyses) |-> analyses[i][2].moments], 1),
                               cues_generated |->
                                   SumLen([i \in 1..Len(all_cues) |-> all_cues[i][2]], 1),
                               scenes_updated |->
                                   IF writes
                                   THEN [i \in 1..Len(all_cues) |->
                                            <<all_cues[i][1], GetSceneById(doc, all_cues[i][1]) # 0>>]
                                   ELSE <<>>,
                               errors |-> <<>>,
                               analyses |-> analyses, all_cues |-> all_cues, storyboard |-> "ok",
                               file_before |-> sb_file, bak_before |-> sb_bak,
                               file_after |-> file_after, bak_after |-> bak_after])
    /\ UNCHANGED <<scene_files, scene_call>>
    /\ OrchOnly

NextOrch ==
    \/ PlaceSceneFile
    \/ DamageStoryboard
    \/ AnalyzeSceneCall
    \/ GenerateSfxCues

----------------------------------------------------------------------------
(* scene_analyzer.py: the glow detector *)
(* A scene file is kept as its list of source lines, each of one of three  *)
(* kinds, with the number of characters the line takes:                     *)
(*   guard   "frame >= 20 &&"                        a frame comparison     *)
(*   filler  a comment of 99 characters              nothing to detect      *)
(*   glow    "boxShadow: `0 0 8px rgba(0,0,0,1)`,"   a glow expression     *)

\* len(line) with its newline
LineLen(line) ==
    CASE line.kind = "guard"  -> 15
      [] line.kind = "filler" -> 100
      [] line.kind = "glow"   -> 36

\* the position in the text at which line i starts
RECURSIVE LineStart(_, _)
LineStart(code, i) == IF i = 1 THEN 0 ELSE LineStart(code, i - 1) + LineLen(code[i - 1])

\* the number of characters before a glow expression that are searched
ContextChars == 200

\* re.search(r"(?:local)?[fF]rame\s*[><=]+\s*(\d+)", context) for the glow
\* expression on line i, context = code[max(0, match.start() - 200):match.start()]:
\* the leftmost comparison of the context; a guard line that starts before the
\* context has lost the word "frame" and does not match
FrameMatch(code, i) ==
    LET start == Max2(0, LineStart(code, i) - ContextChars)
        inside == {j \in 1..(i - 1) : code[j].kind = "guard" /\ LineStart(code, j) >= start}
    IN IF inside = {} THEN None
       ELSE Some(code[CHOOSE j \in inside : \A k \in inside : j <= k].value)

\* the loop of _detect_glow_animations over GLOW_ANIMATION.finditer(code), from
\* line i on; the ref of a moment is the line of its glow expression
RECURSIVE GlowLoop(_, _, _)
GlowLoop(code, i, moments) ==
    IF i > Len(code) THEN moments
    ELSE IF code[i].kind = "glow" /\ FrameMatch(code, i) # None
         THEN GlowLoop(code, i + 1,
                       Append(moments, SoundMoment(<<"glow", i>>, "highlight",
                                                   FrameMatch(code, i)[1], 7, 6, "code", None)))
         ELSE GlowLoop(code, i + 1, moments)

\* _detect_glow_animations(code, result): the moments added to the result
DetectGlowAnimations(code) == GlowLoop(code, 1, <<>>)

\* the lines a scene file is written from
SourceLines ==
    {[kind |-> "guard", value |-> v] : v \in {20, 45}}
    \cup {[kind |-> "filler", value |-> 0], [kind |-> "glow", value |-> 0]}

InitGlow ==
    /\ tsx_code = <<>>
    /\ glow_result = None

\* one more line is written to the scene file
WriteLine ==
    /\ glow_result = None /\ Len(tsx_code) < MaxLines
    /\ \E line \in SourceLines : tsx_code' = Append(tsx_code, line)
    /\ UNCHANGED glow_result
    /\ GlowOnly

\* SceneAnalyzer._detect_glow_animations(code, result) on the file
DetectGlow ==
    /\ glow_result = None
    /\ glow_result' = Some(DetectGlowAnimations(tsx_code))
    /\ UNCHANGED tsx_code
    /\ GlowOnly

NextGlow == WriteLine \/ DetectGlow

----------------------------------------------------------------------------
(* Specifications *)

InitAll ==
    /\ InitAgg /\ InitModels /\ InitCue /\ InitStoryboard /\ InitNarration /\ InitLlm /\ InitOrch
    /\ InitGlow

\* aggregate_moments called on lists of up to MaxMoments moments
SpecAgg == InitAll /\ [][NextAgg]_vars

\* aggregate_moments called on short lists whose moments differ in every score field
SpecTie == InitAll /\ [][NextTie]_vars

\* single SoundMoment and SFXCue objects built from arbitrary arguments
SpecModels == InitAll /\ [][NextModels]_vars

\* two processes run the cue generator over the same moments
SpecCue == InitAll /\ [][NextCue]_vars

\* one caller loads, updates and saves the storyboard file
SpecStoryboard == InitAll /\ [][NextStoryboard]_vars

\* the narration analyzer run on narrations of up to MaxWords words
SpecNarration == InitAll /\ [][NextNarration]_vars

\* the cue generator in library mode, over moments with and without a duration
SpecLibrary == InitAll /\ [][NextLibrary]_vars

\* the semantic analyzer run on answers of up to MaxItems well-formed items
SpecLlm == InitAll /\ [][NextLlm]_vars

\* the orchestrator run up to MaxRuns times on a prepared project
SpecOrch == InitAll /\ [][NextOrch]_vars

\* the semantic analyzer run with failing clients and on short answers holding
\* up to MaxOddItems items of any kind
SpecLlmFailure == InitAll /\ [][NextLlmFailure]_vars

\* two callers run update_storyboard on the same file, each for its own scene
SpecConcurrent == InitAll /\ [][NextConcurrent]_vars

\* the glow detector run on scene files of up to MaxLines lines
SpecGlow == InitAll /\ [][NextGlow]_vars

----------------------------------------------------------------------------
(* Claims about the aggregator *)

Abs(x) == IF x < 0 THEN 0 - x ELSE x

InputMoments ==
    {code_moments[k] : k \in 1..Len(code_moments)}
    \cup {narration_moments[k] : k \in 1..Len(narration_moments)}
    \cup {llm_moments[k] : k \in 1..Len(llm_moments)}

\* C1: after aggregate_moments, no window of fps consecutive frames holds more
\* than max_per_second returned moments (every sliding 1-second window).
C1_SlidingWindowDensity ==
    apc = "done" =>
        \A w \in (0 - cfg.fps)..MaxFrame :
            Cardinality({k \in 1..Len(filtered) :
                            w <= filtered[k].frame /\ filtered[k].frame < w + cfg.fps}) * 10
                <= cfg.max_per_second

\* C2: the returned list is sorted by frame, any two returned moments are at
\* least min_gap_frames apart, and when two moments that survive the merge pass
\* are closer than min_gap_frames fewer moments are returned than were passed in.
C2_SortedMinGap ==
    apc = "done" =>
        /\ \A i, j \in 1..Len(filtered) :
              i < j => /\ filtered[i].frame <= filtered[j].frame
                       /\ filtered[j].frame - filtered[i].frame >= cfg.min_gap_frames
        /\ (\E i, j \in 1..Len(merged) :
               i # j /\ Abs(merged[i].frame - merged[j].frame) < cfg.min_gap_frames)
           => Len(filtered) < TotalMoments

C2_Witness ==
    /\ apc = "done"
    /\ \E i, j \in 1..Len(merged) :
          i # j /\ Abs(merged[i].frame - merged[j].frame) < cfg.min_gap_frames
    /\ Len(filtered) >= 2

\* the start positions of the merge groups of the frame-sorted list ms: position 1,
\* and every position whose frame is more than w after the frame of the latest start
C3_GroupStarts(ms, w) ==
    CHOOSE S \in SUBSET (1..Len(ms)) :
        /\ ms # <<>> => 1 \in S
        /\ \A i \in 2..Len(ms) :
              i \in S <=>
                 \E a \in S : /\ a < i
                              /\ \A b \in S : b < i => b <= a
                              /\ ms[i].frame - ms[a].frame > w

C3_Members(S, k, n) == {i \in 1..n : Cardinality({a \in S : a <= i}) = k}

C3_Priority(m) ==
    IF m.source = "code" THEN 9 ELSE IF m.source = "narration" THEN 8 ELSE 7

C3_Below(a, b) ==
    \/ a.confidence < b.confidence
    \/ a.confidence = b.confidence /\ C3_Priority(a) < C3_Priority(b)
    \/ /\ a.confidence = b.confidence /\ C3_Priority(a) = C3_Priority(b)
       /\ a.intensity < b.intensity

\* C3: the moment kept from each merge group is a member of the group that is
\* maximal in (confidence, source priority code > narration > llm, intensity).
C3_KeepsLexicographicMax ==
    apc = "done" =>
        LET S == C3_GroupStarts(all_moments, cfg.merge_window_frames)
            n == Len(all_moments)
        IN /\ Len(merged) = Cardinality(S)
           /\ \A k \in 1..Len(merged) :
                 /\ \E i \in C3_Members(S, k, n) : all_moments[i] = merged[k]
                 /\ \A i \in C3_Members(S, k, n) : ~C3_Below(merged[k], all_moments[i])

C3_Witness ==
    /\ apc = "done"
    /\ Len(all_moments) = 2 /\ Len(merged) = 1
    /\ all_moments[1].source = "narration" /\ all_moments[2].source = "code"
    /\ all_moments[1].frame < all_moments[2].frame
    /\ all_moments[1].confidence = all_moments[2].confidence
    /\ all_moments[1].intensity > all_moments[2].intensity
    /\ merged[1].source = "code"

C4_InsideBuffer ==
    \A k \in 1..Len(filtered) :
        /\ filtered[k].frame >= cfg.edge_buffer_frames
        /\ filtered[k].frame <= cfg.scene_duration_frames[1] - cfg.edge_buffer_frames

C4_LoneMomentKept ==
    (/\ TotalMoments = 1
     /\ all_moments[1].frame = cfg.edge_buffer_frames
     /\ cfg.scene_duration_frames[1] >= 2 * cfg.edge_buffer_frames)
    => filtered = all_moments

\* C4 as stated: whenever a scene duration is passed, every returned moment lies
\* inside the edge buffer, and a lone moment at exactly edge_buffer_frames is kept.
C4_EdgeBufferWhenGiven ==
    (apc = "done" /\ cfg.scene_duration_frames # None) =>
        C4_InsideBuffer /\ C4_LoneMomentKept

\* C4 (amended): whenever a non-zero scene duration is passed, every returned
\* moment lies inside the edge buffer, and a lone moment at exactly
\* edge_buffer_frames is kept; a duration of 0 is treated like no duration.
C4_EdgeBufferWhenNonZero ==
    (apc = "done" /\ cfg.scene_duration_frames # None /\ cfg.scene_duration_frames # Some(0)) =>
        C4_InsideBuffer /\ C4_LoneMomentKept

C4_Witness ==
    /\ apc = "done"
    /\ cfg.scene_duration_frames = Some(MaxFrame)
    /\ \E k \in 1..Len(merged) : merged[k].frame = cfg.edge_buffer_frames - 1
    /\ \E k \in 1..Len(merged) : merged[k].frame = cfg.edge_buffer_frames
    /\ Len(filtered) = 1 /\ filtered[1].frame = cfg.edge_buffer_frames

\* C5: the call only selects: every returned moment is one of the passed moments
\* with all fields unchanged, none is returned twice, and the three input lists
\* are left as they were.
C5_SelectionOnly ==
    [][(apc = "build" /\ apc' = "done") =>
          /\ \A k \in 1..Len(filtered') : filtered'[k] \in InputMoments
          /\ \A i, j \in 1..Len(filtered') : i # j => filtered'[i].ref # filtered'[j].ref
          /\ code_moments' = code_moments
          /\ narration_moments' = narration_moments
          /\ llm_moments' = llm_moments]_vars

C5_Witness ==
    /\ apc = "done"
    /\ Len(filtered) >= 1
    /\ Len(merged) < TotalMoments
    /\ Len(filtered) < Len(merged)

----------------------------------------------------------------------------
(* Claims about the data model *)

\* C6: every constructed SoundMoment has confidence and intensity in [0,1] and
\* frame >= 0; values out of range are clamped to the nearest bound, values in
\* range are kept.
C6_MomentClamped ==
    made_moment # None =>
        LET m == made_moment[1]
            a == made_moment_args[1]
        IN /\ m.confidence \in 0..10 /\ m.intensity \in 0..10 /\ m.frame >= 0
           /\ m.confidence = (IF a.confidence > 10 THEN 10
                              ELSE IF a.confidence < 0 THEN 0 ELSE a.confidence)
           /\ m.intensity = (IF a.intensity > 10 THEN 10
                             ELSE IF a.intensity < 0 THEN 0 ELSE a.intensity)
           /\ m.frame = (IF a.frame < 0 THEN 0 ELSE a.frame)

C6_Witness ==
    /\ made_moment # None
    /\ made_moment_args[1].frame = -10 /\ made_moment_args[1].confidence = 15
    /\ made_moment_args[1].intensity = -5
    /\ made_moment[1].frame = 0 /\ made_moment[1].confidence = 10 /\ made_moment[1].intensity = 0

\* C7: every constructed SFXCue has volume in [0, 0.15] and frame >= 0.
C7_VolumeCapped ==
    made_cue # None => made_cue[1].volume \in 0..150 /\ made_cue[1].frame >= 0

\* C8: two processes that generate custom cues for the same scene and moments
\* pass the same variation seed for every cue.
C8_SameSeeds ==
    (\A r \in Procs : runs[r].pc = "done" /\ runs[r].mode = "custom") =>
        \A r1, r2 \in Procs : \A i \in 1..Len(cg_moments) :
            runs[r1].calls[i].variation_seed = runs[r2].calls[i].variation_seed

----------------------------------------------------------------------------
(* Claims about the storyboard updater *)

C9_Frames(l) == {l[i].frame : i \in 1..Len(l)}
C9_NewDicts == [i \in 1..Len(last_update.cues) |-> ToDict(last_update.cues[i])]
C9_Elems(l) == {l[i] : i \in 1..Len(l)}
C9_LastAt(l, f) == l[CHOOSE i \in 1..Len(l) :
                        l[i].frame = f /\ \A j \in (i + 1)..Len(l) : l[j].frame # f]
C9_SortedOnePerFrame(l) == \A i, j \in 1..Len(l) : i < j => l[i].frame < l[j].frame

\* C9 as stated: after a merge the scene's cues are sorted with at most one cue
\* per frame, a frame present in both lists holds a new cue, and every other
\* existing cue and every other new cue is still there.
C9_MergeKeepsEveryOtherCue ==
    (last_update.mode = "merge" /\ last_update.found) =>
        LET b == last_update.before
            n == C9_NewDicts
            a == last_update.after
        IN /\ C9_SortedOnePerFrame(a)
           /\ \A c \in C9_Elems(a) :
                 c.frame \in C9_Frames(b) \cap C9_Frames(n) => c \in C9_Elems(n)
           /\ \A e \in C9_Elems(b) : e.frame \notin C9_Frames(n) => e \in C9_Elems(a)
           /\ \A x \in C9_Elems(n) : x.frame \notin C9_Frames(b) => x \in C9_Elems(a)

\* C9 (amended): after a merge the scene's cues are sorted by frame and hold, for
\* every frame of an existing or a new cue, exactly one cue: the last new cue at
\* that frame if there is one, otherwise the last existing cue at that frame.
C9_MergeLastCuePerFrame ==
    (last_update.mode = "merge" /\ last_update.found) =>
        LET b == last_update.before
            n == C9_NewDicts
            a == last_update.after
        IN /\ C9_SortedOnePerFrame(a)
           /\ C9_Frames(a) = C9_Frames(b) \cup C9_Frames(n)
           /\ \A c \in C9_Elems(a) :
                 c = (IF c.frame \in C9_Frames(n) THEN C9_LastAt(n, c.frame)
                      ELSE C9_LastAt(b, c.frame))

C9_Witness ==
    /\ last_update.mode = "merge" /\ last_update.found
    /\ last_update.before = <<ExistingCue>>
    /\ last_update.cues = <<NewSound60>>
    /\ last_update.after = <<ExistingCue, ToDict(NewSound60)>>

\* C10: a save(backup=True) on an existing storyboard file leaves the storyboard
\* file alone until the .bak copy is complete, and from the moment the storyboard
\* file is opened for writing the .bak file holds the content the storyboard
\* file had when the save began.
C10_BackupHoldsPriorContent ==
    \A p \in StoryboardProcs :
        upd[p].prior # None =>
            /\ upd[p].pc \in {"backup_open", "backup_write"} => sb_file = upd[p].prior[1]
            /\ upd[p].pc \in {"open", "dump", "idle"} => sb_bak = upd[p].prior

C10_Witness ==
    \E p \in StoryboardProcs :
        /\ upd[p].pc = "idle" /\ upd[p].prior # None
        /\ sb_ops.saves = 2
        /\ sb_bak = upd[p].prior
        /\ sb_file # upd[p].prior[1]
        /\ sb_file = Dump(upd[p].doc[1])

----------------------------------------------------------------------------
(* Claims about the narration analyzer *)

\* the scan the claim describes, over the frame-sorted raw moments: C11_Scan[k] is
\* the list kept after the first k of them
C11_Scan ==
    LET sorted == SortByFrame(narr_raw)
        scan[k \in 0..Len(sorted)] ==
            IF k = 0 THEN << >>
            ELSE IF k = 1 THEN <<sorted[1]>>
            ELSE LET kept == scan[k - 1]
                     last == kept[Len(kept)]
                 IN IF sorted[k].frame - last.frame < 15
                    THEN IF sorted[k].confidence > last.confidence
                         THEN SubSeq(kept, 1, Len(kept) - 1) \o <<sorted[k]>>
                         ELSE kept
                    ELSE kept \o <<sorted[k]>>
    IN scan[Len(sorted)]

\* C11: the list the narration analyzer returns is sorted by frame with consecutive
\* moments at least 15 frames apart, and it is the result of the scan: a moment
\* within 15 frames of the previously kept one is dropped unless its confidence
\* is strictly higher, and then it replaces the kept one.
C11_DedupSortedGap15 ==
    npc = "done" =>
        /\ \A i \in 1..(Len(narr_moments) - 1) :
              narr_moments[i + 1].frame - narr_moments[i].frame >= 15
        /\ narr_moments = C11_Scan

\* a later, more confident moment has replaced an earlier one and a still later,
\* less confident one has been dropped
C11_Witness ==
    /\ npc = "done"
    /\ Len(narr_moments) = 1
    /\ \E i, j \in 1..Len(narr_raw) :
          /\ narr_raw[i].frame < narr_moments[1].frame
          /\ narr_raw[i].confidence < narr_moments[1].confidence
          /\ narr_raw[j].frame > narr_moments[1].frame
          /\ narr_raw[j].frame - narr_moments[1].frame < 15

C12_TimestampsOf(word) == SelectSeq(word_timestamps, LAMBDA ts : WordLower(ts.word) = word)
C12_Rank(i) == Cardinality({j \in 1..i : narr_matches[j].word = narr_matches[i].word})
C12_Anchored == SelectSeq(narr_matches, LAMBDA e : e.timestamp # None)

\* C12: in one analysis the k-th match of a word is anchored to the k-th timestamp
\* entry of that word, so no entry is used twice, and a match that finds no entry
\* left produces no moment: the moments are exactly the anchored matches, in order.
C12_EachTimestampOnce ==
    npc = "done" =>
        /\ \A i \in 1..Len(narr_matches) :
              LET q == C12_TimestampsOf(narr_matches[i].word)
              IN narr_matches[i].timestamp =
                    (IF C12_Rank(i) <= Len(q) THEN Some(q[C12_Rank(i)]) ELSE None)
        /\ \A i, j \in 1..Len(narr_matches) :
              (i # j /\ narr_matches[i].timestamp # None /\ narr_matches[j].timestamp # None)
                  => narr_matches[i].timestamp[1].id # narr_matches[j].timestamp[1].id
        /\ Len(narr_raw) = Len(C12_Anchored)
        /\ \A r \in 1..Len(narr_raw) :
              /\ narr_raw[r].frame = StartFrame(C12_Anchored[r].timestamp[1])
              /\ narr_raw[r].context[2] = C12_Anchored[r].pattern

\* a word said twice: its two matches took its two timestamps in order, and the
\* later matches of the same word found the queue empty
C12_Witness ==
    /\ npc = "done"
    /\ \E i, j, k \in 1..Len(narr_matches) :
          /\ i < j /\ j < k
          /\ narr_matches[i].word = narr_matches[j].word
          /\ narr_matches[j].word = narr_matches[k].word
          /\ narr_matches[i].pos # narr_matches[j].pos
          /\ narr_matches[i].timestamp # None /\ narr_matches[j].timestamp # None
          /\ narr_matches[i].timestamp[1].id < narr_matches[j].timestamp[1].id
          /\ narr_matches[k].timestamp = None

C13_NumberWord(w) == FindIter("large_number", w) # << >> \/ FindIter("multiplier", w) # << >>

\* C13: every number or multiplier word of the narration that has a word timestamp
\* has, in the returned list, a moment of type reveal or counter at its start frame.
C13_NumberWordAnchored ==
    npc = "done" =>
        \A i \in 1..Len(word_timestamps) :
            C13_NumberWord(word_timestamps[i].word) =>
                \E k \in 1..Len(narr_moments) :
                    /\ narr_moments[k].type \in {"reveal", "counter"}
                    /\ narr_moments[k].frame = StartFrame(word_timestamps[i])

----------------------------------------------------------------------------
(* Claims about the semantic analyzer *)

C14_Set(l) == {l[i] : i \in 1..Len(l)}

\* C14: the moments returned for a parsed answer are at most 8, sorted by frame
\* with consecutive moments at least int(0.5 * fps) frames apart, and when more
\* than 8 moments passed the gap filter the 8 returned are of highest intensity:
\* no discarded moment has a strictly higher intensity than a returned one.
C14_GapAndCap ==
    (lpc = "done" /\ llm_call.client = "answers" /\ llm_call.response = "array") =>
        LET r == llm_result.moments
        IN /\ Len(r) <= 8
           /\ \A i \in 1..(Len(r) - 1) : r[i + 1].frame - r[i].frame >= llm_call.fps \div 2
           /\ C14_Set(r) \subseteq C14_Set(llm_filtered)
           /\ Len(llm_filtered) <= 8 => r = llm_filtered
           /\ Len(llm_filtered) > 8 =>
                 /\ Len(r) = 8
                 /\ \A d \in C14_Set(llm_filtered) \ C14_Set(r) :
                       \A k \in C14_Set(r) : d.intensity <= k.intensity

\* nine moments passed the gap filter, the answer came in reverse order, and the
\* one discarded is a low-intensity moment in the middle of the scene
C14_Witness ==
    /\ lpc = "done" /\ llm_call.client = "answers" /\ llm_call.reversed
    /\ Len(llm_filtered) = 9
    /\ Len(llm_result.moments) = 8
    /\ \E i \in 2..8 :
          /\ llm_filtered[i] \notin C14_Set(llm_result.moments)
          /\ llm_filtered[i].intensity = 5
          /\ llm_filtered[9].intensity = 9

C15_TypeMismatch(item) ==
    /\ item.isdict
    /\ \/ item.timestamp_seconds.tag \notin {"num", "absent"}
       \/ item.intensity.tag \notin {"num", "absent"}
       \/ item.type.tag \notin {"str", "absent"}

C15_CallFailed ==
    \/ llm_call.client \in {"none", "raises"}
    \/ llm_call.client = "answers" /\ llm_call.response \in {"no_array", "invalid_json"}

\* C15 as stated: analyze raises nothing and returns the empty list when there is
\* no client, the client raises, the answer holds no JSON array or an invalid
\* one, or an item of the array has a malformed field.
C15_EmptyOnAnyMalformedField ==
    (lpc = "done" /\ (C15_CallFailed
                      \/ \E i \in 1..Len(llm_items) : C15_TypeMismatch(llm_items[i]))) =>
        /\ llm_result.exc = ""
        /\ llm_result.moments = << >>

\* an item on which the loop of _parse_response raises
C15_Raising(item) ==
    /\ item.isdict
    /\ \/ item.timestamp_seconds.tag \notin {"num", "absent"}
       \/ /\ item.timestamp_seconds.tag = "num"
          /\ 0 <= item.timestamp_seconds.num /\ item.timestamp_seconds.num <= SceneDuration
          /\ item.intensity.tag \notin {"num", "absent"}

\* an item that yields a moment
C15_Usable(item) ==
    /\ item.isdict
    /\ item.intensity.tag \in {"num", "absent"}
    /\ \/ item.timestamp_seconds.tag = "absent"
       \/ /\ item.timestamp_seconds.tag = "num"
          /\ 0 <= item.timestamp_seconds.num /\ item.timestamp_seconds.num <= SceneDuration

\* C15 (amended): analyze never raises; it returns the empty list when there is no
\* client, the client raises, the answer holds no JSON array or an invalid one,
\* or an item has a timestamp that is not a number or, with a timestamp inside
\* the scene, an intensity that is not a number.  Other defects do not empty the
\* list: items that are no objects or lie outside the scene are skipped, and an
\* item whose type is not a known type string yields an element_appear moment.
C15_EmptyOnFailure ==
    lpc = "done" =>
        /\ llm_result.exc = ""
        /\ (C15_CallFailed \/ \E i \in 1..Len(llm_items) : C15_Raising(llm_items[i]))
              => llm_result.moments = << >>
        /\ (~C15_CallFailed /\ \A i \in 1..Len(llm_items) : ~C15_Raising(llm_items[i]))
              => /\ (\E i \in 1..Len(llm_items) : C15_Usable(llm_items[i]))
                       => llm_result.moments # << >>
                 /\ \A k \in 1..Len(llm_result.moments) :
                       LET data == IF llm_call.reversed THEN Reverse(llm_items) ELSE llm_items
                           item == data[llm_result.moments[k].ref[2]]
                       IN (item.type.tag # "str" \/ item.type.str \notin KnownTypes)
                             => llm_result.moments[k].type = "element_appear"

\* a well-formed item followed by one whose timestamp is a string: nothing returned
C15_Witness ==
    /\ lpc = "done" /\ llm_call.client = "answers" /\ llm_call.response = "array"
    /\ ~llm_call.reversed
    /\ Len(llm_items) = 2
    /\ C15_Usable(llm_items[1]) /\ llm_items[1].timestamp_seconds.tag = "num"
    /\ llm_items[2].timestamp_seconds.tag = "str"
    /\ llm_result = [exc |-> "", moments |-> << >>]

----------------------------------------------------------------------------
(* Claims about the cue generator in library mode *)

\* the fixed mapping from moment type to library sound, for the types used here
C16_Sound(type) ==
    CASE type = "reveal"    -> "reveal_hit"
      [] type = "warning"   -> "warning_tone"
      [] type = "success"   -> "success_tone"
      [] type = "data_flow" -> "data_flow"
      [] OTHER              -> "ui_pop"

\* C16: in library mode generate_cues returns one cue per moment in the same
\* order, each with the moment's frame and duration_frames and the library sound
\* of the moment's type ("ui_pop" for a type outside the mapping).
C16_OneCuePerMoment ==
    \A r \in Procs :
        (runs[r].pc = "done" /\ runs[r].mode = "library") =>
            /\ Len(runs[r].cues) = Len(cg_moments)
            /\ \A i \in 1..Len(cg_moments) :
                  /\ runs[r].cues[i].frame = cg_moments[i].frame
                  /\ runs[r].cues[i].duration_frames = cg_moments[i].duration_frames
                  /\ runs[r].cues[i].sound = C16_Sound(cg_moments[i].type)

\* two moments out of frame order, one of a type outside the mapping and one
\* with a duration, and their two cues
C16_Witness ==
    \E r \in Procs :
        /\ runs[r].pc = "done" /\ runs[r].mode = "library"
        /\ Len(cg_moments) = 2
        /\ cg_moments[1].type = "sparkle" /\ cg_moments[1].frame = 30
        /\ cg_moments[2].duration_frames = Some(45) /\ cg_moments[2].frame = 0
        /\ runs[r].cues[1].sound = "ui_pop" /\ runs[r].cues[1].frame = 30
        /\ runs[r].cues[2].sound = "data_flow" /\ runs[r].cues[2].duration_frames = Some(45)

----------------------------------------------------------------------------
(* Claims about the scene analyzer and the orchestrator *)

\* C17: analyzing a scene whose timeline file does not exist raises nothing: the
\* scene analyzer returns a result with analysis_notes = ["Scene file not found"]
\* and no moments.
C17_MissingFileGivesNote ==
    (scene_call.made /\ ~scene_call.exists) =>
        /\ scene_call.exc = ""
        /\ scene_call.notes = <<"Scene file not found">>
        /\ scene_call.moments = <<>>

C18_Failed(sc) == scene_files[sc].kind # "found"
C18_Keys(dict) == {dict[i][1] : i \in 1..Len(dict)}

\* C18: in a generate_sfx_cues run over a loadable storyboard, a scene whose file
\* is missing or whose analysis raises does not stop the batch: every storyboard
\* scene has its analysis and its cue list, and the error list of the result
\* holds an entry for each failed scene.
C18_FailedScenesReported ==
    \A i \in 1..Len(orch_runs) :
        (orch_runs[i].raised = "" /\ orch_runs[i].storyboard = "ok") =>
            /\ C18_Keys(orch_runs[i].analyses) = OrchScenes
            /\ C18_Keys(orch_runs[i].all_cues) = OrchScenes
            /\ Len(orch_runs[i].errors) >= Cardinality({sc \in OrchScenes : C18_Failed(sc)})

C19_Counts(run) == <<run.scenes_analyzed, run.moments_detected, run.cues_generated>>

\* C19: a dry run of generate_sfx_cues leaves the storyboard file and its .bak file
\* as they were, and reports the same scenes_analyzed, moments_detected and
\* cues_generated as a run without dry_run on the same project.
C19_DryRunWritesNothing ==
    /\ \A i \in 1..Len(orch_runs) :
          orch_runs[i].dry_run =>
              /\ orch_runs[i].file_after = orch_runs[i].file_before
              /\ orch_runs[i].bak_after = orch_runs[i].bak_before
    /\ \A i, j \in 1..Len(orch_runs) :
          (orch_runs[i].dry_run /\ ~orch_runs[j].dry_run
           /\ orch_runs[i].raised = "" /\ orch_runs[j].raised = "")
              => C19_Counts(orch_runs[i]) = C19_Counts(orch_runs[j])

\* a run that rewrote the storyboard, then a dry run over the same project that
\* counted the same scenes, moments and cues and wrote nothing
C19_Witness ==
    /\ Len(orch_runs) = 2
    /\ ~orch_runs[1].dry_run /\ orch_runs[2].dry_run
    /\ orch_runs[1].storyboard = "ok" /\ orch_runs[2].storyboard = "ok"
    /\ orch_runs[1].file_after # orch_runs[1].file_before
    /\ orch_runs[1].bak_after = Some(orch_runs[1].file_before)
    /\ orch_runs[2].file_after = orch_runs[1].file_after
    /\ sb_file = orch_runs[1].file_after /\ sb_bak = orch_runs[1].bak_after
    /\ orch_runs[2].scenes_analyzed = 2
    /\ orch_runs[2].cues_generated > 0
    /\ orch_runs[2].moments_detected > orch_runs[2].cues_generated

\* C20: with a storyboard file that exists but holds corrupted JSON,
\* generate_sfx_cues raises nothing and hands a result back.
C20_CorruptStoryboardNoRaise ==
    \A i \in 1..Len(orch_runs) :
        orch_runs[i].storyboard = "corrupt" => orch_runs[i].raised = ""

----------------------------------------------------------------------------
(* Claims about the orchestrated pipeline *)

C21_Wrote(run) == ~run.dry_run /\ run.raised = "" /\ run.storyboard = "ok"
C21_SceneCues(text) == [k \in 1..Len(Parse(text).scenes) |-> Parse(text).scenes[k].sfx_cues]

\* C21: two generate_sfx_cues runs in a row (library mode, no dry run) over
\* unchanged scene files: after the second run every scene of the storyboard has
\* the sfx_cues it had after the first run, and both runs report the same counts.
C21_SecondRunChangesNothing ==
    \A i \in 1..Len(orch_runs) :
        (i > 1 /\ C21_Wrote(orch_runs[i - 1]) /\ C21_Wrote(orch_runs[i])) =>
            /\ C21_SceneCues(orch_runs[i].file_after) = C21_SceneCues(orch_runs[i - 1].file_after)
            /\ C19_Counts(orch_runs[i]) = C19_Counts(orch_runs[i - 1])

\* two writing runs in a row, the first of which replaced the cues of a scene by
\* newly generated ones
C21_Witness ==
    /\ Len(orch_runs) >= 2
    /\ C21_Wrote(orch_runs[1]) /\ C21_Wrote(orch_runs[2])
    /\ orch_runs[1].cues_generated > 0
    /\ orch_runs[1].file_after # orch_runs[1].file_before
    /\ orch_runs[2].file_before = orch_runs[1].file_after
    /\ orch_runs[2].file_after = orch_runs[1].file_after
    /\ sb_file = orch_runs[2].file_after

\* C22: every cue that generate_sfx_cues produces for a scene lies inside the
\* edge buffer of that scene's analysed duration: frame >= 15 and
\* frame <= duration_frames - 15.
C22_CuesInsideEdgeBuffer ==
    \A i \in 1..Len(orch_runs) :
        orch_runs[i].storyboard = "ok" =>
            \A k \in 1..Len(orch_runs[i].all_cues) :
                \A j \in 1..Len(orch_runs[i].all_cues[k][2]) :
                    LET cue == orch_runs[i].all_cues[k][2][j]
                        duration_frames == orch_runs[i].analyses[k][2].duration_frames
                    IN /\ orch_runs[i].analyses[k][1] = orch_runs[i].all_cues[k][1]
                       /\ cue.frame >= DefaultConfig.edge_buffer_frames
                       /\ cue.frame <= duration_frames - DefaultConfig.edge_buffer_frames

C23_Returned(p) == upd[p].call.state = "saving" /\ upd[p].pc = "idle"
C23_Holds(text, call) ==
    /\ Parses(text)
    /\ LET doc == Parse(text)
           idx == GetSceneById(doc, call.scene_id)
       IN /\ idx # 0
          /\ SceneCues(doc.scenes[idx]) = [i \in 1..Len(call.cues) |-> ToDict(call.cues[i])]

\* C23: when two callers have run update_storyboard on the same file at the same
\* time, each for its own scene, and both have returned, the storyboard file
\* holds the new cues of both scenes.
C23_NoLostUpdate ==
    (\A p \in Callers : C23_Returned(p)) =>
        \A p \in Callers : C23_Holds(sb_file, upd[p].call)

----------------------------------------------------------------------------
(* Further claims about the aggregator *)

\* the group of position i of the frame-sorted list ms: the number of positions up
\* to i that open a group, a position opening one when its frame is more than w
\* after the frame of the position that opened the group before it
RECURSIVE C24_GroupOf(_, _, _, _, _, _)
C24_GroupOf(ms, w, i, k, anchor, group) ==
    IF k > i THEN group
    ELSE IF ms[k].frame - ms[anchor].frame <= w
         THEN C24_GroupOf(ms, w, i, k + 1, anchor, group)
         ELSE C24_GroupOf(ms, w, i, k + 1, k, group + 1)

C24_Group(i) == C24_GroupOf(all_moments, cfg.merge_window_frames, i, 1, 1, 1)

\* C24: the merge pass splits the frame-sorted moments into groups anchored on
\* each group's first moment and returns one moment per group, a member of it;
\* so every input moment has a kept moment at most merge_window_frames frames
\* away whose (confidence, source priority, intensity) is not below its own.
C24_OnePerAnchoredGroup ==
    (apc = "done" /\ all_moments # <<>>) =>
        /\ Len(merged) = C24_Group(Len(all_moments))
        /\ \A i \in 1..Len(all_moments) :
              LET kept == merged[C24_Group(i)]
              IN /\ \E j \in 1..Len(all_moments) :
                        C24_Group(j) = C24_Group(i) /\ all_moments[j] = kept
                 /\ Abs(kept.frame - all_moments[i].frame) <= cfg.merge_window_frames
                 /\ ~TupleLess(Score(kept), Score(all_moments[i]))

\* three moments one frame apart and a window of one frame: the first two form a
\* group whose second moment is kept, the third stands alone although it is
\* within the window of the second
C24_Witness ==
    /\ apc = "done" /\ cfg.merge_window_frames = 1
    /\ Len(all_moments) = 3 /\ Len(merged) = 2
    /\ all_moments[1].frame = 0 /\ all_moments[2].frame = 1 /\ all_moments[3].frame = 2
    /\ all_moments[1].confidence < all_moments[2].confidence
    /\ merged[1] = all_moments[2] /\ merged[2] = all_moments[3]

C25_Dropped(m) == \A k \in 1..Len(filtered) : filtered[k] # m
C25_AdmittedNear(m, distance) ==
    {k \in 1..Len(filtered) :
        /\ filtered[k].confidence >= m.confidence
        /\ Abs(filtered[k].frame - m.frame) <= distance}

\* C25: a moment that enters the density pass and is not returned has either a
\* returned moment of at least its confidence fewer than min_gap_frames frames
\* away, or at least max_per_second returned moments of at least its confidence
\* within fps/2 frames.
C25_DroppedOnlyForNoLessConfident ==
    apc = "done" =>
        \A i \in 1..Len(buffered) :
            C25_Dropped(buffered[i]) =>
                \/ cfg.min_gap_frames > 0
                   /\ C25_AdmittedNear(buffered[i], cfg.min_gap_frames - 1) # {}
                \/ Cardinality(C25_AdmittedNear(buffered[i], cfg.fps \div 2)) * 10
                       >= cfg.max_per_second

\* a moment dropped by the density limit alone: nothing returned is closer than
\* the minimum gap, and a more confident moment in its window was returned
C25_Witness ==
    /\ apc = "done"
    /\ \E i \in 1..Len(buffered) :
          /\ C25_Dropped(buffered[i])
          /\ \A k \in 1..Len(filtered) :
                Abs(filtered[k].frame - buffered[i].frame) >= cfg.min_gap_frames
          /\ \E k \in 1..Len(filtered) :
                /\ filtered[k].confidence > buffered[i].confidence
                /\ Abs(filtered[k].frame - buffered[i].frame) <= cfg.fps \div 2

----------------------------------------------------------------------------
(* Further claims about the narration analyzer *)

\* C26: the frame of every narration moment is the start time of the timestamp
\* its match was anchored to, converted at the frame rate the analyzer was
\* constructed with: floor(start_seconds * fps).
C26_FrameAtAnalyzerFps ==
    npc = "done" =>
        /\ Len(narr_raw) = Len(C12_Anchored)
        /\ \A r \in 1..Len(narr_raw) :
              narr_raw[r].frame = (C12_Anchored[r].timestamp[1].start * narr_fps) \div 10
        /\ \A k \in 1..Len(narr_moments) :
              \E r \in 1..Len(narr_raw) : narr_moments[k] = narr_raw[r]

----------------------------------------------------------------------------
(* Further claims about the cue generator *)

\* the type bias, in hundredths of a semitone
C27_Bias(type) ==
    IF type = "reveal" THEN 200
    ELSE IF type = "warning" THEN 0 - 300
    ELSE IF type = "success" THEN 100
    ELSE 0

\* C27: in custom mode the pitch offset of the moment at position i of n, for
\* every n >= 1, is what an element_appear gets at that position plus the type
\* bias (+2 reveal, -3 warning, +1 success, 0 otherwise), clamped to [-12, 12].
C27_PitchIsArcPlusBias ==
    \A r \in Procs :
        (runs[r].pc = "done" /\ runs[r].mode = "custom") =>
            \A i \in 1..Len(cg_moments) :
                LET plain == [cg_moments[i] EXCEPT !.type = "element_appear"]
                    arc == CalculatePitch(plain, i - 1, Len(cg_moments))
                    expected == arc + C27_Bias(cg_moments[i].type)
                IN runs[r].calls[i].pitch_offset = Max2(0 - 1200, Min2(1200, expected))

----------------------------------------------------------------------------
(* Claims about the glow detector *)

\* the guard lines that lie whole within the 200 characters before line i
C28_GuardsInWindow(i) ==
    {j \in 1..(i - 1) :
        /\ tsx_code[j].kind = "guard"
        /\ LineStart(tsx_code, i) - LineStart(tsx_code, j) <= ContextChars}

C28_MomentsOf(i) ==
    SelectSeq(glow_result[1], LAMBDA m : m.ref = <<"glow", i>>)

\* C28: for every glow expression the detector emits no highlight when the 200
\* characters before it hold no frame comparison, and otherwise one highlight
\* whose frame is the value of the comparison closest to the expression.
C28_NearestGuardFrame ==
    glow_result # None =>
        \A i \in 1..Len(tsx_code) :
            tsx_code[i].kind = "glow" =>
                LET guards == C28_GuardsInWindow(i)
                IN IF guards = {} THEN C28_MomentsOf(i) = <<>>
                   ELSE LET nearest == CHOOSE j \in guards : \A k \in guards : k <= j
                        IN /\ Len(C28_MomentsOf(i)) = 1
                           /\ C28_MomentsOf(i)[1].type = "highlight"
                           /\ C28_MomentsOf(i)[1].frame = tsx_code[nearest].value

----------------------------------------------------------------------------
(* Further claims about the storyboard updater *)

C29_Ids(doc) == [k \in 1..Len(doc.scenes) |-> doc.scenes[k].id]

\* C29: update_scene_cues in replace mode gives the named scene exactly the given
\* cues, as dicts and in the given order, and leaves the cues of every other scene
\* and the other fields of the document as they were; for a scene id the
\* document does not have it returns False and changes nothing.
C29_ReplaceTouchesOneScene ==
    last_update.mode = "replace" =>
        LET b == last_update.doc_before[1]
            a == last_update.doc_after[1]
            named == {k \in 1..Len(b.scenes) : b.scenes[k].id = last_update.scene_id}
        IN /\ last_update.found <=> named # {}
           /\ a.project = b.project
           /\ C29_Ids(a) = C29_Ids(b)
           /\ \A k \in 1..Len(b.scenes) :
                 IF k \in named /\ \A j \in named : k <= j
                 THEN /\ a.scenes[k].sfx_cues # None
                      /\ Len(a.scenes[k].sfx_cues[1]) = Len(last_update.cues)
                      /\ \A i \in 1..Len(last_update.cues) :
                            /\ a.scenes[k].sfx_cues[1][i] = ToDict(last_update.cues[i])
                            /\ FromDict(a.scenes[k].sfx_cues[1][i]) = last_update.cues[i]
                 ELSE a.scenes[k].sfx_cues = b.scenes[k].sfx_cues
           /\ ~last_update.found => a = b

\* two cues out of frame order replace the one cue of scene1: they are stored in
\* the order given and scene2 keeps its cues
C29_Witness ==
    /\ last_update.mode = "replace" /\ last_update.found
    /\ last_update.scene_id = "scene1"
    /\ last_update.before = <<ExistingCue>>
    /\ last_update.cues = <<NewSound60, NewSound30>>
    /\ SceneCues(last_update.doc_after[1].scenes[1]) = <<ToDict(NewSound60), ToDict(NewSound30)>>
    /\ last_update.doc_after[1].scenes[2] = last_update.doc_before[1].scenes[2]

\* C30: at every intermediate step of a save(backup=True) on an existing
\* storyboard file (the .bak file being written, the storyboard file truncated,
\* the storyboard file being written) the storyboard file or the .bak file holds
\* the complete content the storyboard file had when the save began.
C30_PriorVersionSurvives ==
    \A p \in StoryboardProcs :
        (upd[p].prior # None /\ upd[p].pc \in {"backup_open", "backup_write", "open", "dump"}) =>
            \/ sb_file = upd[p].prior[1]
            \/ sb_bak = upd[p].prior

\* the storyboard file is truncated for a changed document and the .bak file,
\* which an earlier save had filled with an older version, holds the prior one
C30_Witness ==
    \E p \in StoryboardProcs :
        /\ upd[p].pc = "dump" /\ upd[p].prior # None
        /\ sb_file = EmptyText
        /\ sb_bak = upd[p].prior
        /\ Parses(upd[p].prior[1])
        /\ Parse(upd[p].prior[1]) # upd[p].doc[1]
        /\ sb_ops.saves = 2

====
